---- MODULE Spec2Model ----
(***************************************************************************)
(* A model of universal_scraper.py: the URL filter, the architecture       *)
(* classifier, the PDF chunker, link discovery, content extraction and the *)
(* per-source orchestration.  Python strings are tuples of one-character   *)
(* strings, so that substring tests, regular expressions, slices and       *)
(* lengths are computed character by character as the code computes them.  *)
(***************************************************************************)
EXTENDS Integers, Sequences, FiniteSets, TLC

VARIABLES
    url,          \* the argument of _is_likely_article_url
    verdict,      \* [called, value]: whether it returned, and what
    soup,         \* the parsed page given to detect_architecture
    architecture, \* [called, strategy, frameworks, content_density, needs_js]
    pdf_text,     \* the text given to PDFProcessor.chunk_text
    processor,    \* the PDFProcessor: [chunk_size, chunk_overlap]
    chunked,      \* [called, status, text, chunks]: the outcome of chunk_text
    listing,      \* the parsed page given to find_article_links
    link_base,    \* its base_url argument
    article_links, \* [called, returned, adds]: the list returned, every links.add made
    fetched,      \* what the fetch of the article page gave: [ok, dom]
    article,      \* [called, result]: what _scrape_article returned
    pdf_support,  \* PDF_SUPPORT: whether a PDF library was imported
    items,        \* UniversalKnowledgebaseScraper.items: the ContentItems collected
    sources,      \* the sources add_source was called on: [kind, status, path, added]
    scraper, \* the UniversalScraper of the last add_source: [base_url, config, returned]
    discovered, \* the article_info of a discovered URL: [url, title]
    rendered_soup, \* the page the browser shows at that URL
    strings_get_text, \* whether the strings of the installed bs4 have get_text
    built, \* [click, article]: what each builder gave, [called, result]
    jobs, \* self.jobs of the job manager: the ids stored
    job_results, \* the global job_results
    files, \* the files of the working directory, by path
    threads, \* the thread of each job: pc, config, scraper.items, output_path, total_items
    clock, \* datetime.now(), in seconds
    responses \* the responses of get_job_results

UrlVars == <<url, verdict>>

ArchVars == <<soup, architecture>>

ChunkVars == <<pdf_text, processor, chunked>>

LinkVars == <<listing, link_base, article_links>>

ContentVars == <<fetched, article>>

RunVars == <<pdf_support, items, sources, scraper>>

ItemVars == <<discovered, rendered_soup, strings_get_text, built>>

JobVars == <<jobs, job_results, files, threads, clock, responses>>

vars ==
    <<url, verdict, soup, architecture, pdf_text, processor, chunked,
      listing, link_base, article_links,
      fetched, article,
      pdf_support, items, sources, scraper,
      discovered, rendered_soup, strings_get_text, built,
      jobs, job_results, files, threads, clock, responses>>

(***************************************************************************)
(* Strings                                                                 *)
(***************************************************************************)
LowerLetters ==
    <<"a","b","c","d","e","f","g","h","i","j","k","l","m","n","o","p","q","r","s","t","u","v","w","x","y","z">>

UpperLetters ==
    <<"A","B","C","D","E","F","G","H","I","J","K","L","M","N","O","P","Q","R","S","T","U","V","W","X","Y","Z">>

Range(s) == { s[i] : i \in 1..Len(s) }

LowerSet == Range(LowerLetters)

UpperSet == Range(UpperLetters)

IsLower(c) == c \in LowerSet

IsUpper(c) == c \in UpperSet

IsDigit(c) == c \in {"0","1","2","3","4","5","6","7","8","9"}

IsLetter(c) == IsLower(c) \/ IsUpper(c)

\* str.lower() on one character
LowerChar(c) ==
    IF IsUpper(c)
    THEN LowerLetters[CHOOSE i \in 1..Len(UpperLetters) : UpperLetters[i] = c]
    ELSE c

\* str.lower()
Lower(s) == [i \in 1..Len(s) |-> LowerChar(s[i])]

\* sub occurs in s starting at (1-based) position i
StartsAt(s, sub, i) ==
    /\ i >= 1
    /\ i + Len(sub) - 1 <= Len(s)
    /\ \A k \in 1..Len(sub) : s[i + k - 1] = sub[k]

\* Python's  sub in s
Contains(s, sub) == \E i \in 1..(Len(s) - Len(sub) + 1) : StartsAt(s, sub, i)

(***************************************************************************)
(* UniversalContentDetector._is_likely_article_url                         *)
(***************************************************************************)
article_indicators ==
    { <<"/","b","l","o","g","/">>,
      <<"/","p","o","s","t","/">>,
      <<"/","a","r","t","i","c","l","e","/">>,
      <<"/","s","t","o","r","y","/">>,
      <<"/","g","u","i","d","e","/">>,
      <<"/","t","u","t","o","r","i","a","l","/">>,
      <<"/","h","o","w","-","t","o","/">>,
      <<"/","t","i","p","s","/">>,
      <<"/","n","e","w","s","/">>,
      <<"/","i","n","s","i","g","h","t","s","/">>,
      <<"/","p","-">>,
      <<"/","p","o","s","t","-">>,
      <<"/","a","r","t","i","c","l","e","-">> }

avoid_patterns ==
    { <<"/","t","a","g","/">>,
      <<"/","c","a","t","e","g","o","r","y","/">>,
      <<"/","a","u","t","h","o","r","/">>,
      <<"/","p","a","g","e","/">>,
      <<"/","s","e","a","r","c","h","/">>,
      <<"/","l","o","g","i","n","/">>,
      <<"/","r","e","g","i","s","t","e","r","/">>,
      <<"/","c","o","n","t","a","c","t","/">>,
      <<"/","a","b","o","u","t","/">>,
      <<"/","a","p","i","/">>,
      <<".","p","d","f">>,
      <<".","j","p","g">>,
      <<".","p","n","g">>,
      <<".","g","i","f">>,
      <<".","c","s","s">>,
      <<".","j","s">>,
      <<".","x","m","l">>,
      <<"/","f","e","e","d">>,
      <<"/","r","s","s">>,
      <<"/","s","i","t","e","m","a","p">>,
      <<"/","b","o","o","k">>,
      <<"/","d","e","m","o">>,
      <<"/","p","r","i","c","i","n","g">>,
      <<"/","t","r","i","a","l">>,
      <<"/","s","i","g","n","u","p">>,
      <<"/","c","a","l","e","n","d","a","r">>,
      <<"/","s","c","h","e","d","u","l","e">>,
      <<"c","a","l",".","c","o","m">>,
      <<"c","a","l","e","n","d","l","y",".","c","o","m">>,
      <<"/","m","e","e","t","i","n","g">>,
      <<"/","a","p","p","o","i","n","t","m","e","n","t">>,
      <<"/","c","a","l","l">>,
      <<"/","i","n","t","r","o">>,
      <<"/","c","o","n","s","u","l","t","a","t","i","o","n">>,
      <<"/","s","u","p","p","o","r","t">>,
      <<"/","h","e","l","p">>,
      <<"/","f","a","q">>,
      <<"/","t","e","r","m","s">>,
      <<"/","p","r","i","v","a","c","y">>,
      <<"/","p","o","l","i","c","y">>,
      <<"/","l","e","g","a","l">>,
      <<"/","c","a","r","e","e","r","s">>,
      <<"/","j","o","b","s">> }

\* re.search(r'/20\d{2}/', url)
date_pattern(u) ==
    \E i \in 1..(Len(u) - 5) :
        /\ u[i] = "/" /\ u[i + 1] = "2" /\ u[i + 2] = "0"
        /\ IsDigit(u[i + 3]) /\ IsDigit(u[i + 4])
        /\ u[i + 5] = "/"

\* re.search(r'/p-\d+', url)
substack_pattern(u) ==
    \E i \in 1..(Len(u) - 3) :
        StartsAt(u, <<"/","p","-">>, i) /\ IsDigit(u[i + 3])

\* re.search(r'[a-z]+-[a-z]+-[a-z]+', url): a lowercase letter, a hyphen, a
\* non-empty run of lowercase letters, a hyphen, a lowercase letter
slug_pattern(u) ==
    \E i \in 1..Len(u) : \E j \in (i + 3)..(Len(u) - 1) :
        /\ IsLower(u[i]) /\ u[i + 1] = "-"
        /\ \A k \in (i + 2)..(j - 1) : IsLower(u[k])
        /\ u[j] = "-" /\ IsLower(u[j + 1])

\* re.search(r'/\d+/', url)
numeric_id_pattern(u) ==
    \E i \in 1..Len(u) : \E j \in (i + 2)..Len(u) :
        /\ u[i] = "/" /\ u[j] = "/"
        /\ \A k \in (i + 1)..(j - 1) : IsDigit(u[k])

has_article_indicator(u) == \E ind \in article_indicators : Contains(Lower(u), ind)

has_modern_pattern(u) == substack_pattern(u) \/ slug_pattern(u) \/ numeric_id_pattern(u)

has_avoid_pattern(u) == \E pat \in avoid_patterns : Contains(Lower(u), pat)

\* the filter without its negative list
IsLikelyArticleUrlNoAvoid(u) ==
    has_article_indicator(u) \/ date_pattern(u) \/ has_modern_pattern(u)

_is_likely_article_url(u) ==
    (has_article_indicator(u) \/ date_pattern(u) \/ has_modern_pattern(u))
        /\ ~has_avoid_pattern(u)

(***************************************************************************)
(* The URLs the filter is applied to: a scheme-and-host prefix, up to      *)
(* MaxSegs path segments and an optional trailing slash.                   *)
(***************************************************************************)
MaxSegs == 2

HostPlain == <<"h","t","t","p","s",":","/","/","e","x","a","m","p","l","e",".","c","o","m">>

HostSlug == <<"h","t","t","p","s",":","/","/","m","y","-","c","o","o","l","-","s","i","t","e",".","c","o","m">>

HostBook == <<"h","t","t","p","s",":","/","/","b","o","o","k","s","t","o","r","e",".","c","o","m">>

Prefixes == { HostPlain, HostSlug, HostBook }

SegBlog == <<"/","b","l","o","g">>

SegLogin == <<"/","l","o","g","i","n">>

SegTag == <<"/","t","a","g">>

SegYear == <<"/","2","0","2","4">>

SegMyPost == <<"/","m","y","-","p","o","s","t">>

SegPython == <<"/","p","y","t","h","o","n">>

SegSubstack == <<"/","p","-","1","2">>

SegNumber == <<"/","4","2">>

SegTitleCase == <<"/","M","y","-","B","i","g","-","P","o","s","t">>

Segments ==
    { SegBlog, SegLogin, SegTag, SegYear, SegMyPost, SegPython,
      SegSubstack, SegNumber, SegTitleCase }

RECURSIVE Paths(_)
Paths(n) ==
    IF n = 0 THEN { <<>> }
    ELSE Paths(n - 1) \cup { p \o s : p \in Paths(n - 1), s \in Segments }

UrlInputs ==
    { pre \o p \o tail : pre \in Prefixes, p \in Paths(MaxSegs), tail \in { <<>>, <<"/">> } }

NoVerdict == [called |-> FALSE, value |-> FALSE]

\* one call of _is_likely_article_url(url)
CallIsLikelyArticleUrl ==
    /\ ~verdict.called
    /\ verdict' = [called |-> TRUE, value |-> _is_likely_article_url(url)]
    /\ UNCHANGED url
    /\ UNCHANGED <<ArchVars, ChunkVars, LinkVars, ContentVars, RunVars, ItemVars, JobVars>>

(***************************************************************************)
(* WebsiteArchitectureDetector.detect_architecture                         *)
(*                                                                         *)
(* A parsed page is a sequence of elements [tag, attrs, text]; attrs is a  *)
(* sequence of <<name, value>> pairs.  str(soup) and soup.get_text() are   *)
(* computed from the elements.                                             *)
(***************************************************************************)
Whitespace == {" ", "\n", "\t"}

RECURSIVE LStrip(_)
LStrip(s) == IF s # <<>> /\ Head(s) \in Whitespace THEN LStrip(Tail(s)) ELSE s

RECURSIVE RStrip(_)
RStrip(s) ==
    IF s # <<>> /\ s[Len(s)] \in Whitespace THEN RStrip(SubSeq(s, 1, Len(s) - 1)) ELSE s

\* str.strip()
Strip(s) == RStrip(LStrip(s))

RECURSIVE Concat(_)
Concat(ss) == IF ss = <<>> THEN <<>> ELSE Head(ss) \o Concat(Tail(ss))

\* ' '.join(ss)
RECURSIVE JoinSpace(_)
JoinSpace(ss) ==
    IF ss = <<>> THEN <<>>
    ELSE IF Len(ss) = 1 THEN Head(ss)
    ELSE Head(ss) \o <<" ">> \o JoinSpace(Tail(ss))

TagScript == <<"s","c","r","i","p","t">>

TagDiv == <<"d","i","v">>

TagP == <<"p">>

AttrId == <<"i","d">>

AttrClass == <<"c","l","a","s","s">>

AttrSrc == <<"s","r","c">>

\* the value of attribute name of element el, <<>> when absent
AttrValue(el, name) ==
    IF \E i \in 1..Len(el.attrs) : el.attrs[i][1] = name
    THEN el.attrs[CHOOSE i \in 1..Len(el.attrs) : el.attrs[i][1] = name][2]
    ELSE <<>>

SerializeAttr(a) == <<" ">> \o a[1] \o <<"=","\"">> \o a[2] \o <<"\"">>

\* str(element)
SerializeElement(el) ==
    <<"<">> \o el.tag \o Concat([i \in 1..Len(el.attrs) |-> SerializeAttr(el.attrs[i])])
        \o <<">">> \o el.text \o <<"<","/">> \o el.tag \o <<">">>

\* str(soup)
Markup(page) == Concat([i \in 1..Len(page) |-> SerializeElement(page[i])])

\* soup.get_text(): the strings of the page in document order; the string
\* inside a script element is a Script string, which get_text() leaves out
\* when called on an enclosing element
GetText(page) ==
    Concat([i \in 1..Len(page) |-> IF page[i].tag = TagScript THEN <<>> ELSE page[i].text])

IsScriptWithText(el) == el.tag = TagScript /\ el.text # <<>>

\* ' '.join([script.get_text() for script in scripts if script.get_text()])
script_content(page) ==
    LET scripts == SelectSeq(page, IsScriptWithText)
    IN  JoinSpace([i \in 1..Len(scripts) |-> scripts[i].text])

\* re.search(r'react|React|\breact\b', script_content, re.IGNORECASE) and alike
FrameworkFlag(page, name) == Contains(Lower(script_content(page)), name)

\* soup.find(attrs={'id': 'root'}) or soup.find(attrs={'id': 'app'}) or
\* soup.find(attrs={'class': re.compile(r'app|root')})
has_spa_indicators(page) ==
    \E i \in 1..Len(page) :
        \/ AttrValue(page[i], AttrId) = <<"r","o","o","t">>
        \/ AttrValue(page[i], AttrId) = <<"a","p","p">>
        \/ Contains(AttrValue(page[i], AttrClass), <<"a","p","p">>)
        \/ Contains(AttrValue(page[i], AttrClass), <<"r","o","o","t">>)

Max(a, b) == IF a >= b THEN a ELSE b

Min(a, b) == IF a <= b THEN a ELSE b

\* content_density = len(text_content.strip()) / max(len(str(soup)), 1), kept
\* as the fraction num/den
content_density(page) ==
    [num |-> Len(Strip(GetText(page))), den |-> Max(Len(Markup(page)), 1)]

\* content_density < 0.02, that is num/den < 1/50
DensityBelowThreshold(d) == d.num * 50 < d.den

Frameworks(page) ==
    [react   |-> FrameworkFlag(page, <<"r","e","a","c","t">>),
     vue     |-> FrameworkFlag(page, <<"v","u","e">>),
     angular |-> FrameworkFlag(page, <<"a","n","g","u","l","a","r">>),
     next    |-> FrameworkFlag(page, <<"n","e","x","t">>)]

Profile(page, strategy) ==
    [called |-> TRUE,
     strategy |-> strategy,
     frameworks |-> Frameworks(page),
     content_density |-> content_density(page),
     needs_js |-> strategy \in {"javascript_heavy", "framework_based"}]

\* the framework test placed before the density and marker test
DetectArchitectureFrameworkFirst(page) ==
    LET f == Frameworks(page)
    IN  Profile(page,
            IF f.react \/ f.vue \/ f.angular \/ f.next THEN "framework_based"
            ELSE IF DensityBelowThreshold(content_density(page)) \/ has_spa_indicators(page)
                 THEN "javascript_heavy"
            ELSE "static_html")

detect_architecture(page) ==
    LET f == Frameworks(page)
    IN  Profile(page,
            IF DensityBelowThreshold(content_density(page)) \/ has_spa_indicators(page)
            THEN "javascript_heavy"
            ELSE IF f.react \/ f.vue \/ f.angular \/ f.next THEN "framework_based"
            ELSE "static_html")

(***************************************************************************)
(* The pages classified: up to MaxNodes elements of a small catalogue.     *)
(***************************************************************************)
MaxNodes == 3

Element(tag, attrs, text) == [tag |-> tag, attrs |-> attrs, text |-> text]

ElScriptReact == Element(TagScript, <<>>, <<"R","e","a","c","t",".","r","e","n","d","e","r">>)

ElScriptVue == Element(TagScript, <<>>, <<"r","e","v","u","e">>)

ElScriptPlain == Element(TagScript, <<>>, <<"j","q","u","e","r","y">>)

ElScriptSrc ==
    Element(TagScript, << <<AttrSrc, <<"b","u","n","d","l","e",".","j","s">> >> >>, <<>>)

ElRoot == Element(TagDiv, << <<AttrId, <<"r","o","o","t">> >> >>, <<>>)

ElWrapper ==
    Element(TagDiv, << <<AttrClass, <<"w","r","a","p","p","e","r">> >> >>,
            <<"h","e","l","l","o">>)

ElText ==
    Element(TagP, <<>>,
            <<"a"," ","p","a","r","a","g","r","a","p","h"," ","o","f"," ","t","h","i","r","t","y","-","s","i","x"," ","c","h","a","r","a","c","t","e","r","s">>)

ElChar == Element(TagP, <<>>, <<"x">>)

ElBlank == Element(TagP, <<>>, <<" ">>)

Catalogue ==
    { ElScriptReact, ElScriptVue, ElScriptPlain, ElScriptSrc, ElRoot, ElWrapper,
      ElText, ElChar, ElBlank }

RECURSIVE Pages(_)
Pages(n) ==
    IF n = 0 THEN { <<>> }
    ELSE Pages(n - 1) \cup { Append(pg, el) : pg \in Pages(n - 1), el \in Catalogue }

NoProfile ==
    [called |-> FALSE, strategy |-> "none",
     frameworks |-> [react |-> FALSE, vue |-> FALSE, angular |-> FALSE, next |-> FALSE],
     content_density |-> [num |-> 0, den |-> 1], needs_js |-> FALSE]

\* one call of detect_architecture(soup, url)
CallDetectArchitecture ==
    /\ ~architecture.called
    /\ architecture' = detect_architecture(soup)
    /\ UNCHANGED soup
    /\ UNCHANGED <<UrlVars, ChunkVars, LinkVars, ContentVars, RunVars, ItemVars, JobVars>>

(***************************************************************************)
(* Python sequence operations, with 0-based and negative indices           *)
(***************************************************************************)
SetMin(S) == CHOOSE x \in S : \A y \in S : x <= y

SetMax(S) == CHOOSE x \in S : \A y \in S : x >= y

\* s[i] is defined for -len(s) <= i < len(s); otherwise IndexError
PyIndexOk(s, i) == -Len(s) <= i /\ i < Len(s)

PyChar(s, i) == IF i >= 0 THEN s[i + 1] ELSE s[Len(s) + i + 1]

\* a slice bound as Python clamps it
PyBound(s, i) == IF i < 0 THEN Max(Len(s) + i, 0) ELSE Min(i, Len(s))

\* s[a:b]
PySlice(s, a, b) == SubSeq(s, PyBound(s, a) + 1, PyBound(s, b))

\* the number of leading whitespace characters of s
LeadingSpace(s) == Len(s) - Len(LStrip(s))

\* s.rfind(sub, a, b)
PyRFind(s, sub, a, b) ==
    LET lo == PyBound(s, a)
        hi == PyBound(s, b)
        at == { i \in lo..(hi - Len(sub)) : StartsAt(s, sub, i + 1) }
    IN  IF at = {} THEN -1 ELSE SetMax(at)

\* re.sub(r'\s+', ' ', text).strip()
NormalizeWhitespace(raw) ==
    LET Keep(j) == raw[j] \notin Whitespace \/ j = 1 \/ raw[j - 1] \notin Whitespace
        kept == SelectSeq([j \in 1..Len(raw) |-> j], Keep)
    IN  Strip([k \in 1..Len(kept) |->
                  IF raw[kept[k]] \in Whitespace THEN " " ELSE raw[kept[k]]])

(***************************************************************************)
(* Regular expressions of _find_chapter_boundaries.  A pattern is a        *)
(* sequence of items: a word boundary, the end of the text, a literal      *)
(* character (compared without case, re.IGNORECASE, or exactly) or a       *)
(* greedy repetition of a character class with backtracking.  Positions    *)
(* are 0-based.                                                            *)
(***************************************************************************)
Unbounded == 0 - 1

NoMatch == 0 - 1

WordBoundaryItem == [k |-> "b"]

EndItem == [k |-> "e"]

LitItem(c) == [k |-> "l", ch |-> c]

\* a literal character of a pattern compiled without re.IGNORECASE
ExactItem(c) == [k |-> "x", ch |-> c]

ClassItem(cls, lo, hi) == [k |-> "c", cls |-> cls, min |-> lo, max |-> hi]

Lit(word) == [i \in 1..Len(word) |-> LitItem(word[i])]

Exact(word) == [i \in 1..Len(word) |-> ExactItem(word[i])]

IsWordChar(c) == IsLetter(c) \/ IsDigit(c) \/ c = "_"

\* membership in a character class under re.IGNORECASE
InClass(cls, c) ==
    CASE cls = "space" -> c \in Whitespace
      [] cls = "digit" -> IsDigit(c)
      [] cls = "dot_or_space" -> c = "." \/ c \in Whitespace
      [] cls = "letter" -> IsLetter(c)
      [] cls = "not_dot" -> c # "."
      [] cls = "not_dot_newline" -> c # "." /\ c # "\n"
      [] cls = "newline" -> c = "\n"
      [] cls = "word" -> IsWordChar(c)
      [] cls = "slash_or_dash" -> c = "/" \/ c = "-"
      [] cls = "letter_s" -> c = "s" \/ c = "S"
      [] cls = "not_rparen" -> c # ")"
      [] cls = "upper" -> IsUpper(c)
      [] cls = "lower" -> IsLower(c)

\* \b at position pos
WordBoundary(text, pos) ==
    (pos > 0 /\ IsWordChar(text[pos])) # (pos < Len(text) /\ IsWordChar(text[pos + 1]))

\* the length of the longest run of class characters from pos, at most max
RunLen(cls, text, pos, max) ==
    IF pos >= Len(text) \/ ~InClass(cls, text[pos + 1]) THEN 0
    ELSE LET bad == { j \in (pos + 1)..Len(text) : ~InClass(cls, text[j]) }
             run == IF bad = {} THEN Len(text) - pos ELSE SetMin(bad) - pos - 1
         IN  IF max = Unbounded THEN run ELSE Min(run, max)

RECURSIVE MatchItems(_, _, _, _)
RECURSIVE TryCount(_, _, _, _, _)
\* the end of the match of items k.. of pat at pos, or NoMatch
MatchItems(pat, k, text, pos) ==
    IF k > Len(pat) THEN pos
    ELSE LET it == pat[k]
         IN  CASE it.k = "b" ->
                    IF WordBoundary(text, pos) THEN MatchItems(pat, k + 1, text, pos)
                    ELSE NoMatch
               [] it.k = "e" ->
                    IF pos = Len(text) THEN MatchItems(pat, k + 1, text, pos)
                    ELSE NoMatch
               [] it.k = "x" ->
                    IF pos < Len(text) /\ text[pos + 1] = it.ch
                    THEN MatchItems(pat, k + 1, text, pos + 1)
                    ELSE NoMatch
               [] it.k = "l" ->
                    IF pos < Len(text) /\ LowerChar(text[pos + 1]) = it.ch
                    THEN MatchItems(pat, k + 1, text, pos + 1)
                    ELSE NoMatch
               [] it.k = "c" ->
                    TryCount(pat, k, text, pos, RunLen(it.cls, text, pos, it.max))

\* item k repeated n times, then n - 1, ... down to its minimum
TryCount(pat, k, text, pos, n) ==
    IF n < pat[k].min THEN NoMatch
    ELSE LET e == MatchItems(pat, k + 1, text, pos + n)
         IN  IF e # NoMatch THEN e ELSE TryCount(pat, k, text, pos, n - 1)

\* the positions at which the first item of pat can match
FirstItemOk(pat, text, pos) ==
    LET it == pat[1]
    IN  CASE it.k = "b" -> WordBoundary(text, pos)
          [] it.k = "e" -> pos = Len(text)
          [] it.k = "x" -> pos < Len(text) /\ text[pos + 1] = it.ch
          [] it.k = "l" -> pos < Len(text) /\ LowerChar(text[pos + 1]) = it.ch
          [] it.k = "c" -> TRUE

\* the end of the match of pat at pos, or NoMatch; an assertion that is the
\* first item has been tested by FirstItemOk
MatchEnd(pat, text, pos) ==
    IF FirstItemOk(pat, text, pos)
    THEN MatchItems(pat, IF pat[1].k \in {"b", "e"} THEN 2 ELSE 1, text, pos)
    ELSE NoMatch

RECURSIVE NonOverlapping(_, _, _)
\* of the candidate match starts, those a left-to-right scan from pos keeps
NonOverlapping(starts, ends, pos) ==
    LET ahead == { p \in starts : p >= pos }
    IN  IF ahead = {} THEN <<>>
        ELSE LET p == SetMin(ahead)
             IN  <<p>> \o NonOverlapping(starts, ends, IF ends[p] > p THEN ends[p] ELSE p + 1)

\* re.search(pattern, text) finds a match
Search(pat, text) == \E p \in 0..Len(text) : MatchEnd(pat, text, p) # NoMatch

\* re.search of an alternation of patterns
SearchAny(pats, text) == \E pat \in pats : Search(pat, text)

\* the start offsets of list(re.finditer(pattern, text, re.IGNORECASE | re.MULTILINE))
FindIter(pat, text) ==
    LET starts == { p \in 0..Len(text) : MatchEnd(pat, text, p) # NoMatch }
        ends == [p \in starts |-> MatchEnd(pat, text, p)]
    IN  NonOverlapping(starts, ends, 0)

ChapterWord == <<"c","h","a","p","t","e","r">>

ChWord == <<"c","h">>

chapter_patterns ==
    << <<WordBoundaryItem>> \o Lit(ChapterWord)
          \o <<ClassItem("space", 1, Unbounded), ClassItem("digit", 1, Unbounded),
               ClassItem("dot_or_space", 1, 1)>>,
       <<WordBoundaryItem>> \o Lit(ChWord)
          \o <<ClassItem("space", 0, Unbounded), ClassItem("digit", 1, Unbounded),
               ClassItem("dot_or_space", 1, 1)>>,
       <<WordBoundaryItem>> \o Lit(ChapterWord)
          \o <<ClassItem("space", 1, Unbounded), ClassItem("digit", 1, Unbounded),
               ClassItem("dot_or_space", 1, 1)>>,
       <<WordBoundaryItem>> \o Lit(ChWord)
          \o <<ClassItem("space", 1, Unbounded), ClassItem("digit", 1, Unbounded),
               LitItem(".")>>,
       <<WordBoundaryItem>> \o Lit(ChWord)
          \o <<ClassItem("digit", 1, Unbounded), LitItem(".")>>,
       <<WordBoundaryItem, ClassItem("digit", 1, Unbounded), LitItem("."),
         ClassItem("space", 1, Unbounded), ClassItem("letter", 1, 1),
         ClassItem("not_dot", 10, Unbounded)>>,
       <<LitItem("\n"), ClassItem("space", 0, Unbounded), ClassItem("digit", 1, Unbounded),
         ClassItem("space", 1, Unbounded), ClassItem("letter", 1, 1),
         ClassItem("not_dot_newline", 10, Unbounded)>>,
       <<LitItem("\n"), ClassItem("space", 0, Unbounded)>> \o Lit(ChWord)
          \o <<ClassItem("space", 0, Unbounded), ClassItem("digit", 1, Unbounded),
               ClassItem("dot_or_space", 1, 1)>> >>

(***************************************************************************)
(* PDFProcessor: chunk_text and its helpers.  A chunk is                   *)
(* [content, content_type, chunk_index, total_chunks, lo, hi]; lo and hi   *)
(* record the slice text[lo:hi] of the normalized text the content was     *)
(* stripped from.  Titles are not modelled.  An outcome is                 *)
(* [status, chunks] with status "returned", "raised" (IndexError) or       *)
(* "hang" (a while loop that never ends).                                  *)
(***************************************************************************)
Chunk(content, index, total, lo, hi) ==
    [content |-> content, content_type |-> "book", chunk_index |-> index,
     total_chunks |-> total, lo |-> lo, hi |-> hi]

Outcome(status, chunks) == [status |-> status, chunks |-> chunks]

SentenceEnd == {".", "!", "?"}

\* for i in range(lo, hi): if i < len(text) and text[i] in '.!?':
\*     if i + 1 < len(text) and text[i + 1] == ' ': end = i + 1; break
SentenceSearch(text, lo, hi) ==
    LET hits == { i \in lo..(hi - 1) :
                    /\ PyIndexOk(text, i)
                    /\ PyChar(text, i) \in SentenceEnd
                    /\ i + 1 < Len(text)
                    /\ PyChar(text, i + 1) = " " }
    IN  [raised |-> lo < hi /\ lo < 0 - Len(text),
         found |-> hits # {},
         at |-> IF hits = {} THEN 0 ELSE SetMin(hits)]

NoSearch == [raised |-> FALSE, found |-> FALSE, at |-> 0]

ParagraphWindow == 200

SentenceWindow == 100

\* start = end - self.chunk_overlap; if start <= 0: start = end
NextStart(end, overlap) == IF end - overlap <= 0 THEN end ELSE end - overlap

\* The state of a while loop: status is "running" until the loop ends:
\* "returned", "raised" (IndexError), or "hang" (the loop is back at a start
\* offset it has been at, and so never ends).
LoopState(status, start, visited, chunks) ==
    [status |-> status, start |-> start, visited |-> visited, chunks |-> chunks]

\* Every iteration that does not end the loop is at a new start offset
\* between -len(text) - chunk_size and len(text), so this many iterations
\* end any loop.
LoopBudget(text, cfg) == 2 * Len(text) + cfg.chunk_size + 2

\* one iteration of the while loop of _split_large_chapter
SplitStep(content, chapter_index, offset, cfg, st) ==
    IF ~(st.start < Len(content)) THEN [st EXCEPT !.status = "returned"]
    ELSE IF st.start \in st.visited THEN [st EXCEPT !.status = "hang"]
    ELSE
      LET start == st.start
          end0 == start + cfg.chunk_size
          paragraph_break ==
              IF end0 < Len(content)
              THEN PyRFind(content, <<"\n","\n">>, start, end0 + ParagraphWindow)
              ELSE 0 - 1
          at_paragraph == end0 < Len(content) /\ paragraph_break > start
          search ==
              IF end0 < Len(content) /\ ~at_paragraph
              THEN SentenceSearch(content, end0 - SentenceWindow, end0 + SentenceWindow)
              ELSE NoSearch
          end == IF at_paragraph THEN paragraph_break
                 ELSE IF search.found THEN search.at + 1
                 ELSE end0
          slice == PySlice(content, start, end)
          lo == offset + PyBound(content, start)
          chunk_content == Strip(slice)
          appended ==
              IF chunk_content # <<>>
              THEN Append(st.chunks,
                          Chunk(chunk_content, chapter_index, 0, lo, lo + Len(slice)))
              ELSE st.chunks
      IN  IF search.raised THEN [st EXCEPT !.status = "raised"]
          ELSE LoopState("running", NextStart(end, cfg.chunk_overlap),
                         st.visited \cup {start}, appended)

RECURSIVE SplitLoop(_, _, _, _, _, _)
\* up to n iterations of the while loop of _split_large_chapter
SplitLoop(content, chapter_index, offset, cfg, st, n) ==
    IF st.status # "running" \/ n = 0 THEN st
    ELSE IF n = 1 THEN SplitStep(content, chapter_index, offset, cfg, st)
    ELSE LET half == n \div 2
             mid == SplitLoop(content, chapter_index, offset, cfg, st, half)
         IN  SplitLoop(content, chapter_index, offset, cfg, mid, n - half)

\* what a loop that ended in state st gives its caller
LoopOutcome(st) == Outcome(st.status, st.chunks)

NumberedByPart(st, chapter_index) ==
    Outcome(st.status,
            [k \in 1..Len(st.chunks) |->
                [st.chunks[k] EXCEPT !.chunk_index = chapter_index + k - 1]])

\* _split_large_chapter numbering its sub-chunks by part: chapter_index,
\* chapter_index + 1, ...
SplitLargeChapterByPart(content, chapter_index, offset, cfg) ==
    NumberedByPart(SplitLoop(content, chapter_index, offset, cfg,
                             LoopState("running", 0, {}, <<>>), LoopBudget(content, cfg)),
                   chapter_index)

_split_large_chapter(content, chapter_index, offset, cfg) ==
    LoopOutcome(SplitLoop(content, chapter_index, offset, cfg,
                          LoopState("running", 0, {}, <<>>), LoopBudget(content, cfg)))

\* one iteration of the while loop of _size_based_chunking; chunk_index is
\* len(chunks)
SizeStep(text, cfg, st) ==
    IF ~(st.start < Len(text)) THEN [st EXCEPT !.status = "returned"]
    ELSE IF st.start \in st.visited THEN [st EXCEPT !.status = "hang"]
    ELSE
      LET start == st.start
          end0 == start + cfg.chunk_size
          search ==
              IF end0 < Len(text)
              THEN SentenceSearch(text, end0 - cfg.chunk_overlap, end0 + cfg.chunk_overlap)
              ELSE NoSearch
          end == IF search.found THEN search.at + 1 ELSE end0
          slice == PySlice(text, start, end)
          lo == PyBound(text, start)
          chunk_body == Strip(slice)
          appended ==
              IF chunk_body # <<>>
              THEN Append(st.chunks,
                          Chunk(chunk_body, Len(st.chunks), 0, lo, lo + Len(slice)))
              ELSE st.chunks
      IN  IF search.raised THEN [st EXCEPT !.status = "raised"]
          ELSE LoopState("running", NextStart(end, cfg.chunk_overlap),
                         st.visited \cup {start}, appended)

RECURSIVE SizeLoop(_, _, _, _)
\* up to n iterations of the while loop of _size_based_chunking
SizeLoop(text, cfg, st, n) ==
    IF st.status # "running" \/ n = 0 THEN st
    ELSE IF n = 1 THEN SizeStep(text, cfg, st)
    ELSE LET half == n \div 2
             mid == SizeLoop(text, cfg, st, half)
         IN  SizeLoop(text, cfg, mid, n - half)

\* total_chunks = len(chunks); for chunk in chunks: chunk["total_chunks"] = total_chunks
BackFill(chunks) == [i \in 1..Len(chunks) |-> [chunks[i] EXCEPT !.total_chunks = Len(chunks)]]

\* the chunks of a loop that ended, with total_chunks updated
BackFilled(out) ==
    IF out.status = "returned" THEN Outcome("returned", BackFill(out.chunks))
    ELSE Outcome(out.status, out.chunks)

_size_based_chunking(text, cfg) ==
    BackFilled(SizeLoop(text, cfg, LoopState("running", 0, {}, <<>>), LoopBudget(text, cfg)))

RECURSIVE FirstPatternOneMatch(_, _)
\* the first pattern from k on with at least 1 match, 0 when there is none
FirstPatternOneMatch(text, k) ==
    IF k > Len(chapter_patterns) THEN 0
    ELSE IF Len(FindIter(chapter_patterns[k], text)) >= 1 THEN k
    ELSE FirstPatternOneMatch(text, k + 1)

RECURSIVE FirstPattern(_, _)
\* the first pattern from k on with at least 2 matches, 0 when there is none
FirstPattern(text, k) ==
    IF k > Len(chapter_patterns) THEN 0
    ELSE IF Len(FindIter(chapter_patterns[k], text)) >= 2 THEN k
    ELSE FirstPattern(text, k + 1)

\* the chapters [content, index, offset]; offset is where content starts in text
\* the chapters cut at the match starts of one pattern
ChaptersAt(matches, text) ==
    [i \in 1..Len(matches) |->
        LET start_pos == matches[i]
            end_pos == IF i + 1 <= Len(matches) THEN matches[i + 1] ELSE Len(text)
            slice == PySlice(text, start_pos, end_pos)
        IN  [content |-> Strip(slice),
             index |-> i - 1,
             offset |-> start_pos + LeadingSpace(slice)]]

ChaptersOfPattern(k, text) ==
    IF k = 0 THEN <<>> ELSE ChaptersAt(FindIter(chapter_patterns[k], text), text)

_find_chapter_boundaries(text) == ChaptersOfPattern(FirstPattern(text, 1), text)

\* the chunks of chapter i: its sub-chunks when it is longer than twice
\* chunk_size, else the chapter itself
ChapterChunks(chapter, i, total, cfg) ==
    IF Len(chapter.content) > cfg.chunk_size * 2
    THEN _split_large_chapter(chapter.content, i, chapter.offset, cfg)
    ELSE Outcome("returned",
                 <<Chunk(chapter.content, i, total, chapter.offset,
                         chapter.offset + Len(chapter.content))>>)

\* final_chunks after the chunks of one chapter
Extended(final_chunks, sub) ==
    IF sub.status = "returned" THEN Outcome("returned", final_chunks \o sub.chunks)
    ELSE Outcome(sub.status, final_chunks)

RECURSIVE ChapterLoop(_, _, _, _)
\* the for loop of _process_chapter_chunks, from chapter n on
ChapterLoop(chapter_chunks, cfg, n, out) ==
    IF n > Len(chapter_chunks) \/ out.status # "returned" THEN out
    ELSE ChapterLoop(chapter_chunks, cfg, n + 1,
                     Extended(out.chunks,
                              ChapterChunks(chapter_chunks[n], n - 1, Len(chapter_chunks), cfg)))

\* _process_chapter_chunks without the final update of total_chunks
ProcessChapterChunksNoBackFill(chapter_chunks, cfg) ==
    ChapterLoop(chapter_chunks, cfg, 1, Outcome("returned", <<>>))

_process_chapter_chunks(chapter_chunks, cfg) ==
    BackFilled(ChapterLoop(chapter_chunks, cfg, 1, Outcome("returned", <<>>)))

\* chunk_text(text, title) of a PDFProcessor with configuration cfg
ChunkBy(chapter_chunks, text, cfg) ==
    IF chapter_chunks # <<>>
    THEN _process_chapter_chunks(chapter_chunks, cfg)
    ELSE _size_based_chunking(text, cfg)

\* chunk_text from the cleaned text on
ChunkCleaned(text, cfg) ==
    IF Len(text) <= cfg.chunk_size
    THEN Outcome("returned", <<Chunk(text, 0, 1, 0, Len(text))>>)
    ELSE ChunkBy(_find_chapter_boundaries(text), text, cfg)

chunk_text(raw, cfg) == ChunkCleaned(NormalizeWhitespace(raw), cfg)

(***************************************************************************)
(* The texts chunked: up to MaxPieces pieces, and the configurations of    *)
(* the processor (chunk_size, chunk_overlap with overlap < size).          *)
(***************************************************************************)
MaxPieces == 3

PieceMarker == <<"C","h","1","."," ">>

PieceChapter == <<"C","h","a","p","t","e","r"," ","2"," ">>

PieceWord == <<"a","b"," ">>

PieceSentence == <<"c","d",".","\n","\n">>

PieceLong ==
    <<"x","x","x","x","x","x","x","x","x","x","x","x","x","x","x","x","x","x","x","x","x","x","x","x","x","x","x","x","x","x","x","x","x","x","x","x","x","x","x","x","x","x","x","x","x","x","x","x","x","x","x","x","x","x","x","x","x","x","x","x","x","x","x","x","x","x","x","x","x","x","."," ","y","y","y","y","y","y","y","y","y","y","y","y","y","y","y","y","y","y","y","y","y","y","y","y","y","y","y","y","y","y","y","y","y","y","y","y","y","y","y","y","y","y","y","y","y","y","y","y","y","y","y","y","y","y","y","y","y","y","y","y","y","y","y","y","y","y","y","y","y","y","y","y","y","y","y","y","y","y","y","y","."," ","z","z","z","z","z","z","z","z","z","z","z","z","z","z","z","z","z","z","z","z","z","z","z","z","z","z","z","z","z","z","z","z","z","z","z","z","z","z","z","z","z","z","z","z","z","z","z","z","z","z","z","z","z","z","z","z","z","z","z","z","z","z","z","z","z","z","z","z","z"," ">>

Pieces == { PieceMarker, PieceChapter, PieceWord, PieceSentence, PieceLong }

RECURSIVE Texts(_)
Texts(n) ==
    IF n = 1 THEN Pieces
    ELSE Texts(n - 1) \cup { t \o q : t \in Texts(n - 1), q \in Pieces }

Processor(size, overlap) == [chunk_size |-> size, chunk_overlap |-> overlap]

Processors == { Processor(8, 2), Processor(5, 1), Processor(110, 10) }

NotChunked == [called |-> FALSE, status |-> "none", text |-> <<>>, chunks |-> <<>>]

\* what a call of chunk_text on a text that cleans to text gave
Chunked(outcome, text) ==
    [called |-> TRUE, status |-> outcome.status, text |-> text, chunks |-> outcome.chunks]

\* one call of chunk_text(pdf_text)
CallChunkText ==
    /\ ~chunked.called
    /\ chunked' = Chunked(chunk_text(pdf_text, processor), NormalizeWhitespace(pdf_text))
    /\ UNCHANGED <<pdf_text, processor>>
    /\ UNCHANGED <<UrlVars, ArchVars, LinkVars, ContentVars, RunVars, ItemVars, JobVars>>

(***************************************************************************)
(* Text operations of the link heuristics                                  *)
(***************************************************************************)
\* any(term in text for term in terms)
ContainsAny(text, terms) == \E term \in terms : Contains(text, term)

\* s.endswith(suffix)
EndsWith(s, suffix) ==
    Len(suffix) <= Len(s) /\ SubSeq(s, Len(s) - Len(suffix) + 1, Len(s)) = suffix

\* s.startswith(prefix)
StartsWith(s, prefix) == Len(prefix) <= Len(s) /\ SubSeq(s, 1, Len(prefix)) = prefix

\* s.strip(chars), s.rstrip(chars) for a set of characters
StripOf(s, chars) ==
    LET inner == { j \in 1..Len(s) : s[j] \notin chars }
    IN  IF inner = {} THEN <<>> ELSE SubSeq(s, SetMin(inner), SetMax(inner))

RStripOf(s, chars) ==
    LET inner == { j \in 1..Len(s) : s[j] \notin chars }
    IN  IF inner = {} THEN <<>> ELSE SubSeq(s, 1, SetMax(inner))

\* the increasing sequence of the members of a set of numbers
RECURSIVE Sorted(_)
Sorted(S) == IF S = {} THEN <<>> ELSE <<SetMin(S)>> \o Sorted(S \ {SetMin(S)})

\* re.sub(r'[seps]+', rep, s): every run of separator characters becomes rep
SquashRuns(s, seps, rep) ==
    LET Keep(j) == s[j] \notin seps \/ j = 1 \/ s[j - 1] \notin seps
        kept == SelectSeq([j \in 1..Len(s) |-> j], Keep)
    IN  [k \in 1..Len(kept) |-> IF s[kept[k]] \in seps THEN rep ELSE s[kept[k]]]

\* s.split(): the words between runs of whitespace;
\* s.split(sep): the pieces between the separators, empty ones included
WordsAt(s, starts) ==
    [k \in 1..Len(starts) |->
        SubSeq(s, starts[k],
               SetMin({ j \in starts[k]..Len(s) : j = Len(s) \/ s[j + 1] \in Whitespace }))]

Words(s) ==
    WordsAt(s, Sorted({ j \in 1..Len(s) :
                          s[j] \notin Whitespace /\ (j = 1 \/ s[j - 1] \in Whitespace) }))

PiecesAt(s, cuts) ==
    [k \in 1..(Len(cuts) - 1) |-> SubSeq(s, cuts[k] + 1, cuts[k + 1] - 1)]

SplitOn(s, sep) ==
    PiecesAt(s, <<0>> \o Sorted({ j \in 1..Len(s) : s[j] = sep }) \o <<Len(s) + 1>>)

\* sep.join(ss)
RECURSIVE Join(_, _)
Join(ss, sep) ==
    IF ss = <<>> THEN <<>>
    ELSE IF Len(ss) = 1 THEN Head(ss)
    ELSE Head(ss) \o sep \o Join(Tail(ss), sep)

(***************************************************************************)
(* urllib.parse.urljoin and urlparse for URLs of the form                  *)
(* scheme://netloc/path and hrefs that are such a URL, a path from the     *)
(* root (/...) or a relative path, without query, fragment or dot segments *)
(***************************************************************************)
SchemeMark == <<":","/","/">>

\* the (1-based) position of :// in u, 0 when there is none
SchemeAt(u) ==
    IF Contains(u, SchemeMark)
    THEN SetMin({ i \in 1..Len(u) : StartsAt(u, SchemeMark, i) })
    ELSE 0

HasScheme(u) ==
    SchemeAt(u) > 1 /\ \A j \in 1..(SchemeAt(u) - 1) : IsLetter(u[j])

\* the position of the first / after scheme://, len(url) + 1 when there is none
PathAt(u) ==
    SetMin({ j \in (SchemeAt(u) + 3)..(Len(u) + 1) : j = Len(u) + 1 \/ u[j] = "/" })

\* scheme://netloc
Origin(u) == SubSeq(u, 1, PathAt(u) - 1)

\* urlparse(url).netloc
netloc(u) == IF HasScheme(u) THEN SubSeq(u, SchemeAt(u) + 3, PathAt(u) - 1) ELSE <<>>

\* urlparse(url).path
UrlPath(u) == SubSeq(u, PathAt(u), Len(u))

\* the path up to and including its last /
DirName(path) ==
    IF path = <<>> THEN <<"/">>
    ELSE SubSeq(path, 1, SetMax({ j \in 1..Len(path) : path[j] = "/" }))

urljoin(base, href) ==
    IF href = <<>> THEN base
    ELSE IF HasScheme(href) THEN href
    ELSE IF href[1] = "/" THEN Origin(base) \o href
    ELSE Origin(base) \o DirName(UrlPath(base)) \o href

(***************************************************************************)
(* UniversalContentDetector: titles and constructed URLs                   *)
(***************************************************************************)
generic_terms ==
    { <<"h","o","m","e">>,
 <<"a","b","o","u","t">>,
 <<"c","o","n","t","a","c","t">>,
 <<"b","l","o","g">>,
 <<"n","e","w","s">>,
 <<"m","e","n","u">>,
 <<"s","e","a","r","c","h">>,
 <<"l","o","g","i","n">>,
 <<"r","e","g","i","s","t","e","r">>,
 <<"s","u","b","s","c","r","i","b","e">>,
 <<"f","o","l","l","o","w">>,
 <<"s","h","a","r","e">>,
 <<"r","e","a","d"," ","m","o","r","e">>,
 <<"s","e","e"," ","a","l","l">>,
 <<"v","i","e","w"," ","a","l","l">>,
 <<"m","o","r","e">>,
 <<"n","e","x","t">>,
 <<"p","r","e","v","i","o","u","s">>,
 <<"b","a","c","k">>,
 <<"c","l","o","s","e">> }

title_article_indicators ==
    { <<"h","o","w"," ","t","o">>,
 <<"w","h","y">>,
 <<"w","h","a","t"," ","i","s">>,
 <<"g","u","i","d","e">>,
 <<"t","i","p","s">>,
 <<"b","e","s","t">>,
 <<"t","o","p">>,
 <<"i","n","t","r","o","d","u","c","t","i","o","n">>,
 <<"o","v","e","r","v","i","e","w">>,
 <<"a","n","a","l","y","s","i","s">>,
 <<"r","e","v","i","e","w">>,
 <<"c","a","s","e"," ","s","t","u","d","y">>,
 <<"d","e","e","p"," ","d","i","v","e">>,
 <<"u","n","d","e","r","s","t","a","n","d","i","n","g">>,
 <<"e","x","p","l","o","r","i","n","g">>,
 <<"b","u","i","l","d","i","n","g">>,
 <<"c","r","e","a","t","i","n","g">>,
 <<"i","m","p","l","e","m","e","n","t","i","n","g">>,
 <<"o","p","t","i","m","i","z","i","n","g">>,
 <<"i","m","p","r","o","v","i","n","g">>,
 <<"m","a","s","t","e","r","i","n","g">>,
 <<"l","e","a","r","n","i","n","g">> }

\* any(word[0].isupper() for word in text.split() if len(word) > 2)
has_title_structure(words) ==
    \E k \in 1..Len(words) : Len(words[k]) > 2 /\ IsUpper(words[k][1])

\* has_good_length and (has_article_words or has_title_structure or word_count >= 3)
TitleShape(text, words) ==
    /\ 2 <= Len(words) /\ Len(words) <= 25
    /\ \/ ContainsAny(Lower(text), title_article_indicators)
       \/ has_title_structure(words)
       \/ Len(words) >= 3

_looks_like_article_title(text) ==
    IF ContainsAny(Lower(text), generic_terms) THEN FALSE
    ELSE TitleShape(text, Words(text))

generic_text ==
    { <<"r","e","a","d"," ","m","o","r","e">>,
 <<"c","o","n","t","i","n","u","e"," ","r","e","a","d","i","n","g">>,
 <<"c","l","i","c","k"," ","h","e","r","e">>,
 <<"m","o","r","e"," ","i","n","f","o">>,
 <<"l","e","a","r","n"," ","m","o","r","e">>,
 <<"s","e","e"," ","m","o","r","e">>,
 <<"v","i","e","w"," ","m","o","r","e">>,
 <<"f","u","l","l"," ","a","r","t","i","c","l","e">>,
 <<"r","e","a","d"," ","f","u","l","l">>,
 <<"c","o","n","t","i","n","u","e">>,
 <<"m","o","r","e">>,
 <<"h","e","r","e">>,
 <<"l","i","n","k">> }

_is_meaningful_link_text(text) ==
    IF text = <<>> \/ Len(Strip(text)) < 5 THEN FALSE
    ELSE IF Strip(Lower(text)) \in generic_text THEN FALSE
    ELSE Len(Words(text)) >= 2

\* ^[a-zA-Z]+ \d{1,2}, \d{4}$
date_only_pattern ==
    <<ClassItem("letter", 1, Unbounded), ExactItem(" "), ClassItem("digit", 1, 2),
      ExactItem(","), ExactItem(" "), ClassItem("digit", 4, 4), EndItem>>

\* re.sub(r'[^\w\s-]', '', title)
KeepSlugChars(title) ==
    LET Kept(c) == IsWordChar(c) \/ c \in Whitespace \/ c = "-"
    IN  SelectSeq(title, Kept)

\* the three substitutions that turn a lowercased title into a slug
Slug(lowered) ==
    StripOf(SquashRuns(SquashRuns(Strip(KeepSlugChars(lowered)), Whitespace, "-"),
                       {"-"}, "-"),
            {"-"})

BlogSuffix == <<"/","b","l","o","g">>

\* patterns[0] of _construct_article_url
FirstPatternUrl(base_clean, clean_title) ==
    IF EndsWith(base_clean, BlogSuffix)
    THEN base_clean \o <<"/">> \o clean_title
    ELSE base_clean \o BlogSuffix \o <<"/">> \o clean_title

\* the URL, or <<>> for None
_construct_article_url(base_url, title) ==
    IF MatchEnd(date_only_pattern, Strip(title), 0) # NoMatch THEN <<>>
    ELSE FirstPatternUrl(RStripOf(base_url, {"/"}), Slug(Lower(title)))

stop_words ==
    { <<"t","h","e">>,
 <<"a">>,
 <<"a","n">>,
 <<"a","n","d">>,
 <<"o","r">>,
 <<"b","u","t">>,
 <<"i","n">>,
 <<"o","n">>,
 <<"a","t">>,
 <<"t","o">>,
 <<"f","o","r">>,
 <<"o","f">>,
 <<"w","i","t","h">>,
 <<"b","y">> }

\* [word for word in words if word not in stop_words or len(words) <= 3]
filtered_words(words) ==
    LET Kept(word) == word \notin stop_words \/ Len(words) <= 3
    IN  SelectSeq(words, Kept)

SpaUrl(base_clean, clean_title) ==
    IF Contains(base_clean, BlogSuffix)
    THEN base_clean \o <<"/">> \o clean_title
    ELSE base_clean \o BlogSuffix \o <<"/">> \o clean_title

_construct_spa_article_url(base_url, title) ==
    SpaUrl(RStripOf(base_url, {"/"}),
           Join(filtered_words(SplitOn(Slug(Lower(title)), "-")), <<"-">>))

(***************************************************************************)
(* The page find_article_links reads.  dom is the sequence of the elements *)
(* of the document in document order; an element is                        *)
(* [tag, class, has_href, href, onclick, style, role, text, parent] with   *)
(* class the list of class names, text the string the element starts with  *)
(* and parent the index of the enclosing element, Document for a top-level *)
(* element.  The parent of the document is None.                           *)
(***************************************************************************)
Document == 0

None == 0 - 1

Node(tag, class, has_href, href, onclick, style, text, parent) ==
    [tag |-> tag, class |-> class, has_href |-> has_href, href |-> href,
     onclick |-> onclick, style |-> style, role |-> <<>>, text |-> text, parent |-> parent]

\* an element with the attributes of attrs besides its own
WithAttrs(node, attrs) == node @@ [attrs |-> attrs]

\* element.get(name, '')
Attr(node, name) ==
    IF "attrs" \in DOMAIN node /\ name \in DOMAIN node.attrs THEN node.attrs[name] ELSE <<>>

\* element.parent
ParentOf(dom, n) == IF n = Document \/ n = None THEN None ELSE dom[n].parent

\* element.name
NameOf(dom, n) == IF n = Document THEN "[document]" ELSE dom[n].tag

\* ' '.join(element.get('class', []))
ClassText(dom, n) == IF n = Document THEN <<>> ELSE JoinSpace(dom[n].class)

RECURSIVE Inside(_, _, _)
\* element n lies inside element a
Inside(dom, n, a) ==
    /\ n # Document
    /\ n # None
    /\ dom[n].parent = a \/ Inside(dom, dom[n].parent, a)

\* the elements inside a, in document order
Descendants(dom, a) == Sorted({ n \in 1..Len(dom) : Inside(dom, n, a) })

\* the strings of a and of the elements inside it, stripped, without the empty ones
StrippedStrings(dom, a) ==
    LET Holds(n) == (n = a \/ Inside(dom, n, a)) /\ Strip(dom[n].text) # <<>>
        kept == SelectSeq([n \in 1..Len(dom) |-> n], Holds)
    IN  [k \in 1..Len(kept) |-> Strip(dom[kept[k]].text)]

\* element.get_text(strip=True)
get_text(dom, a) == Concat(StrippedStrings(dom, a))

\* the first of a sequence of elements, None when it is empty
FirstOf(elements) == IF elements = <<>> THEN None ELSE elements[1]

HeadingTags == <<"h1", "h2", "h3", "h4", "h5", "h6">>

IsAnchorWithHref(dom, n) == dom[n].tag = "a" /\ dom[n].has_href

\* element.find('a', href=True)
FindAnchor(dom, a) ==
    FirstOf(SelectSeq(Descendants(dom, a), LAMBDA n : IsAnchorWithHref(dom, n)))

\* soup.find_all(tag)
FindAllTag(dom, a, tag) == SelectSeq(Descendants(dom, a), LAMBDA n : dom[n].tag = tag)

(***************************************************************************)
(* CSS selectors: a compound selector for the element and, for a           *)
(* descendant combinator, one for an enclosing element                     *)
(***************************************************************************)
AnySel ==
    [tag |-> "", class_token |-> <<>>, class_sub |-> <<>>, has_href |-> FALSE,
     href_sub |-> <<>>, onclick |-> FALSE, style_sub |-> <<>>, role |-> <<>>, none |-> FALSE]

\* no enclosing element is asked for
NoSel == [AnySel EXCEPT !.none = TRUE]

TagSel(tag) == [AnySel EXCEPT !.tag = tag]

\* .name
ClassSel(name) == [AnySel EXCEPT !.class_token = name]

\* [class*="part"] and tag[class*="part"]
ClassSubSel(tag, part) == [AnySel EXCEPT !.tag = tag, !.class_sub = part]

\* a[href*="part"]
HrefSubSel(part) == [AnySel EXCEPT !.tag = "a", !.has_href = TRUE, !.href_sub = part]

\* a[href]
AnchorSel == [AnySel EXCEPT !.tag = "a", !.has_href = TRUE]

\* [onclick]
OnclickSel == [AnySel EXCEPT !.onclick = TRUE]

\* [style*="part"]
StyleSubSel(part) == [AnySel EXCEPT !.style_sub = part]

\* [role="value"]
RoleSel(value) == [AnySel EXCEPT !.role = value]

Selector(ancestor, subject) == [ancestor |-> ancestor, subject |-> subject]

Matches(node, s) ==
    /\ ~s.none
    /\ s.tag = "" \/ node.tag = s.tag
    /\ s.class_token = <<>> \/ \E k \in 1..Len(node.class) : node.class[k] = s.class_token
    /\ s.class_sub = <<>> \/ Contains(JoinSpace(node.class), s.class_sub)
    /\ ~s.has_href \/ node.has_href
    /\ s.href_sub = <<>> \/ Contains(node.href, s.href_sub)
    /\ ~s.onclick \/ node.onclick
    /\ s.style_sub = <<>> \/ Contains(node.style, s.style_sub)
    /\ s.role = <<>> \/ node.role = s.role

Selected(dom, a, sel, n) ==
    /\ Inside(dom, n, a)
    /\ Matches(dom[n], sel.subject)
    /\ sel.ancestor.none \/ \E up \in 1..Len(dom) :
                               Inside(dom, n, up) /\ Matches(dom[up], sel.ancestor)

\* a.select(selector): the elements inside a that match, in document order
Select(dom, a, sel) == Sorted({ n \in 1..Len(dom) : Selected(dom, a, sel, n) })

(***************************************************************************)
(* UniversalContentDetector: what an element looks like                    *)
(***************************************************************************)
MonthNames == { <<"J","a","n">>,
 <<"F","e","b">>,
 <<"M","a","r">>,
 <<"A","p","r">>,
 <<"M","a","y">>,
 <<"J","u","n">>,
 <<"J","u","l">>,
 <<"A","u","g">>,
 <<"S","e","p">>,
 <<"O","c","t">>,
 <<"N","o","v">>,
 <<"D","e","c">> }

\* \b(20\d{2}|Jan|...|Dec)\b
preview_date_patterns ==
    { <<WordBoundaryItem, ExactItem("2"), ExactItem("0"), ClassItem("digit", 2, 2),
        WordBoundaryItem>> }
    \cup { <<WordBoundaryItem>> \o Exact(m) \o <<WordBoundaryItem>> : m \in MonthNames }

TitleClassWords == { <<"t","i","t","l","e">>,
 <<"h","e","a","d","i","n","g">>,
 <<"h","e","a","d","l","i","n","e">> }

\* bool(element.find(['h1', 'h2', 'h3', 'h4', 'h5', 'h6']))
HasHeading(dom, a) ==
    \E n \in 1..Len(dom) :
        Inside(dom, n, a) /\ \E k \in 1..Len(HeadingTags) : dom[n].tag = HeadingTags[k]

\* any(len(p.get_text(strip=True)) > 30 for p in element.find_all(['p', 'div']))
has_description(dom, a) ==
    \E n \in 1..Len(dom) :
        /\ Inside(dom, n, a)
        /\ dom[n].tag \in {"p", "div"}
        /\ Len(get_text(dom, n)) > 30

PreviewShape(dom, a, text) ==
    /\ Len(text) >= 50
    /\ HasHeading(dom, a) \/ ContainsAny(Lower(ClassText(dom, a)), TitleClassWords)
    /\ has_description(dom, a) \/ SearchAny(preview_date_patterns, text)

_looks_like_article_preview(dom, a) == PreviewShape(dom, a, get_text(dom, a))

\* the first element inside a with one of the tags, taken in the order of tags
RECURSIVE FindByTags(_, _, _, _)
FindByTags(dom, a, tags, k) ==
    IF k > Len(tags) THEN None
    ELSE IF FindAllTag(dom, a, tags[k]) # <<>> THEN FindAllTag(dom, a, tags[k])[1]
    ELSE FindByTags(dom, a, tags, k + 1)

\* element.find(class_=lambda x: x and pattern in x.lower()): the function is
\* given each class name, then the whole class value
ClassHas(node, pattern) ==
    \/ \E k \in 1..Len(node.class) : Contains(Lower(node.class[k]), pattern)
    \/ Contains(Lower(JoinSpace(node.class)), pattern)

TitleClassOrder == << <<"t","i","t","l","e">>, <<"h","e","a","d","i","n","g">>, <<"h","e","a","d","l","i","n","e">> >>

RECURSIVE FindByClass(_, _, _, _)
FindByClass(dom, a, patterns, k) ==
    IF k > Len(patterns) THEN None
    ELSE IF \E n \in 1..Len(dom) : Inside(dom, n, a) /\ ClassHas(dom[n], patterns[k])
    THEN SetMin({ n \in 1..Len(dom) : Inside(dom, n, a) /\ ClassHas(dom[n], patterns[k]) })
    ELSE FindByClass(dom, a, patterns, k + 1)

_find_title_in_element(dom, a) ==
    IF FindByTags(dom, a, HeadingTags, 1) # None THEN FindByTags(dom, a, HeadingTags, 1)
    ELSE FindByClass(dom, a, TitleClassOrder, 1)

TimeUnits == { <<"m","i","n","u","t","e">>,
 <<"h","o","u","r">>,
 <<"d","a","y">>,
 <<"w","e","e","k">>,
 <<"m","o","n","t","h">>,
 <<"y","e","a","r">> }

\* date_patterns of _has_article_metadata, searched with re.IGNORECASE
date_patterns ==
    { <<WordBoundaryItem, ClassItem("digit", 4, 4), WordBoundaryItem>>,
      <<WordBoundaryItem, ClassItem("digit", 1, 2), ClassItem("slash_or_dash", 1, 1),
        ClassItem("digit", 1, 2), ClassItem("slash_or_dash", 1, 1),
        ClassItem("digit", 2, 4), WordBoundaryItem>> }
    \cup { <<WordBoundaryItem>> \o Lit(Lower(m)) \o <<WordBoundaryItem>> : m \in MonthNames }
    \cup { <<WordBoundaryItem, ClassItem("digit", 1, 2), ClassItem("space", 1, Unbounded)>>
           \o Lit(unit)
           \o <<ClassItem("letter_s", 0, 1), ClassItem("space", 1, Unbounded)>>
           \o Lit(<<"r","e","a","d">>) \o <<WordBoundaryItem>> : unit \in TimeUnits }

\* the separator of the last author pattern
MiddleDot == "middot"

\* author_patterns of _has_article_metadata, searched with re.IGNORECASE
author_patterns ==
    { <<WordBoundaryItem>> \o Lit(<<"b","y">>)
         \o <<ClassItem("space", 1, Unbounded), ClassItem("word", 1, Unbounded)>>,
      <<WordBoundaryItem>> \o Lit(<<"a","u","t","h","o","r">>),
      <<WordBoundaryItem>> \o Lit(<<"w","r","i","t","t","e","n">>) \o <<ClassItem("space", 1, Unbounded)>>
         \o Lit(<<"b","y">>),
      <<WordBoundaryItem, ClassItem("word", 1, Unbounded), ClassItem("space", 1, Unbounded),
        ClassItem("word", 1, Unbounded), ClassItem("space", 0, Unbounded),
        LitItem(MiddleDot), ClassItem("space", 0, Unbounded)>> }

_has_article_metadata(dom, a) ==
    \/ SearchAny(date_patterns, get_text(dom, a))
    \/ SearchAny(author_patterns, get_text(dom, a))

non_article_text ==
    { <<"b","o","o","k">>,
 <<"d","e","m","o">>,
 <<"c","a","l","l">>,
 <<"m","e","e","t","i","n","g">>,
 <<"s","c","h","e","d","u","l","e">>,
 <<"c","a","l","e","n","d","a","r">>,
 <<"c","o","n","t","a","c","t">>,
 <<"a","b","o","u","t">>,
 <<"l","o","g","i","n">>,
 <<"s","i","g","n","u","p">>,
 <<"r","e","g","i","s","t","e","r">>,
 <<"s","u","b","s","c","r","i","b","e">>,
 <<"d","o","w","n","l","o","a","d">>,
 <<"p","r","i","c","i","n","g">>,
 <<"t","r","i","a","l">>,
 <<"f","r","e","e">>,
 <<"b","u","y">>,
 <<"p","u","r","c","h","a","s","e">> }

context_indicators ==
    { <<"p","o","s","t">>,
 <<"a","r","t","i","c","l","e">>,
 <<"b","l","o","g">>,
 <<"e","n","t","r","y">>,
 <<"c","o","n","t","e","n","t">>,
 <<"s","t","o","r","y">>,
 <<"n","e","w","s">>,
 <<"c","a","r","d">>,
 <<"i","t","e","m">>,
 <<"l","i","n","k">>,
 <<"t","i","t","l","e">>,
 <<"h","e","a","d","i","n","g">> }

\* the element k levels above n, None past the document
RECURSIVE Up(_, _, _)
Up(dom, n, k) == IF k = 0 \/ n = None THEN n ELSE Up(dom, ParentOf(dom, n), k - 1)

\* one round of the parent loop of _has_article_context
ContextAt(dom, parent) ==
    /\ parent # None
    /\ \/ ContainsAny(Lower(ClassText(dom, parent)), context_indicators)
       \/ ContainsAny(Lower(get_text(dom, parent)), context_indicators)
    /\ _has_article_metadata(dom, parent)

_has_article_context(dom, link_element, link_text) ==
    IF ContainsAny(Lower(link_text), non_article_text) THEN FALSE
    ELSE \/ \E k \in 1..3 : ContextAt(dom, Up(dom, link_element, k))
         \/ _looks_like_article_title(link_text)

allowed_subdomains == { <<"b","l","o","g">>,
 <<"w","w","w">>,
 <<"n","e","w","s">>,
 <<"a","r","t","i","c","l","e","s">> }

\* parsed_url.netloc is base_parsed.netloc or one of its allowed subdomains
DomainAllowed(url_netloc, base_netloc) ==
    \/ url_netloc = base_netloc
    \/ \E sub \in allowed_subdomains : StartsWith(url_netloc, sub \o <<".">> \o base_netloc)

_scrapy_style_link_filter(dom, u, link_text, link_element, base_url) ==
    /\ _is_likely_article_url(u)
    /\ _is_meaningful_link_text(link_text)
    /\ _has_article_context(dom, link_element, link_text)
    /\ DomainAllowed(netloc(u), netloc(base_url))

\* the loop over the parents of _find_link_near_element, k levels left
RECURSIVE LinkAbove(_, _, _, _)
LinkAbove(dom, parent, base_url, k) ==
    IF k = 0 \/ parent = None THEN <<>>
    ELSE IF parent # Document /\ dom[parent].tag = "a" /\ dom[parent].href # <<>>
    THEN urljoin(base_url, dom[parent].href)
    ELSE IF FindAnchor(dom, parent) # None
    THEN urljoin(base_url, dom[FindAnchor(dom, parent)].href)
    ELSE LinkAbove(dom, ParentOf(dom, parent), base_url, k - 1)

\* The URL, or <<>> for None.  The searches of the siblings and of the
\* clickable containers come after the parent loop has found no a[href]
\* inside element.parent, where they look again, so they find none.
_find_link_near_element(dom, element, base_url) ==
    IF dom[element].tag = "a" /\ dom[element].href # <<>>
    THEN urljoin(base_url, dom[element].href)
    ELSE IF FindAnchor(dom, element) # None
    THEN urljoin(base_url, dom[FindAnchor(dom, element)].href)
    ELSE LinkAbove(dom, ParentOf(dom, element), base_url, 5)

(***************************************************************************)
(* UniversalContentDetector._find_article_title_in_container, for element  *)
(* texts of one line.  A title is a string, <<>> for None.                 *)
(***************************************************************************)
title_selectors ==
    << Selector(NoSel, TagSel("h1")), Selector(NoSel, TagSel("h2")),
       Selector(NoSel, TagSel("h3")), Selector(NoSel, TagSel("h4")),
       Selector(NoSel, TagSel("h5")), Selector(NoSel, TagSel("h6")),
       Selector(NoSel, ClassSubSel("", <<"t","i","t","l","e">>)),
       Selector(NoSel, ClassSubSel("", <<"h","e","a","d","i","n","g">>)),
       Selector(NoSel, ClassSubSel("", <<"h","e","a","d","l","i","n","e">>)),
       Selector(NoSel, ClassSel(<<"t","i","t","l","e">>)),
       Selector(NoSel, ClassSel(<<"h","e","a","d","i","n","g">>)),
       Selector(NoSel, ClassSel(<<"h","e","a","d","l","i","n","e">>)) >>

\* title_elem = container.select_one(selector) has a title-like text
SelectsTitle(dom, container, sel) ==
    /\ Select(dom, container, sel) # <<>>
    /\ _looks_like_article_title(get_text(dom, Select(dom, container, sel)[1]))

RECURSIVE TitleBySelector(_, _, _)
\* Strategy 1, from selector k on
TitleBySelector(dom, container, k) ==
    IF k > Len(title_selectors) THEN <<>>
    ELSE IF SelectsTitle(dom, container, title_selectors[k])
    THEN get_text(dom, Select(dom, container, title_selectors[k])[1])
    ELSE TitleBySelector(dom, container, k + 1)

categories == { <<"p","r","o","d","u","c","t">>,
 <<"b","l","o","g">>,
 <<"n","e","w","s">>,
 <<"a","r","t","i","c","l","e">>,
 <<"p","o","s","t">> }

ReadMore == <<"R","e","a","d"," ","m","o","r","e">>

Ellipsis == <<".",".",".">>

\* re.sub(r'(Read more|\.\.\.|\.\.\.)$', '', line)
WithoutEnding(line) ==
    IF EndsWith(line, ReadMore) THEN SubSeq(line, 1, Len(line) - Len(ReadMore))
    ELSE IF EndsWith(line, Ellipsis) THEN SubSeq(line, 1, Len(line) - Len(Ellipsis))
    ELSE line

\* re.split(r'[.!?]', line)[0]
FirstSentence(line) ==
    SubSeq(line, 1, SetMin({ j \in 1..(Len(line) + 1) :
                               j = Len(line) + 1 \/ line[j] \in SentenceEnd }) - 1)

\* what the loop over the lines appends to filtered_lines for one line
FilteredLine(line) ==
    IF MatchEnd(date_only_pattern, line, 0) # NoMatch THEN <<>>
    ELSE IF Lower(line) \in categories THEN <<>>
    ELSE IF EndsWith(line, ReadMore) \/ EndsWith(line, Ellipsis)
    THEN IF Len(Strip(WithoutEnding(line))) > 10 THEN <<Strip(WithoutEnding(line))>> ELSE <<>>
    ELSE IF Len(line) < 10 THEN <<>>
    ELSE IF Len(line) > 200
    THEN IF Len(FirstSentence(line)) > 10 /\ Len(FirstSentence(line)) < 100
         THEN <<Strip(FirstSentence(line))>> ELSE <<>>
    ELSE <<line>>

\* filtered_lines of a text of one line
filtered_lines(full_text) == IF full_text = <<>> THEN <<>> ELSE FilteredLine(full_text)

CategoryPrefixes == << <<"P","r","o","d","u","c","t">>, <<"B","l","o","g">>, <<"N","e","w","s">>, <<"A","r","t","i","c","l","e">> >>

\* ^(Product|Blog|News|Article)\s*[A-Z][a-z]+ \d{1,2}, \d{4}\s*
category_date_pattern(prefix) ==
    Exact(prefix)
    \o <<ClassItem("space", 0, Unbounded), ClassItem("upper", 1, 1),
         ClassItem("lower", 1, Unbounded), ExactItem(" "), ClassItem("digit", 1, 2),
         ExactItem(","), ExactItem(" "), ClassItem("digit", 4, 4),
         ClassItem("space", 0, Unbounded)>>

RECURSIVE WithoutCategoryDate(_, _)
\* re.sub of the category and date prefix by ''
WithoutCategoryDate(line, k) ==
    IF k > Len(CategoryPrefixes) THEN line
    ELSE IF MatchEnd(category_date_pattern(CategoryPrefixes[k]), line, 0) # NoMatch
    THEN SubSeq(line, MatchEnd(category_date_pattern(CategoryPrefixes[k]), line, 0) + 1,
                Len(line))
    ELSE WithoutCategoryDate(line, k + 1)

\* Strategy 3 on a title-like line
CleanedLine(line, cleaned) ==
    IF Len(cleaned) > 10 THEN Strip(cleaned) ELSE Strip(line)

\* re.sub(r'(Read more|\.\.\.|\.\.\.).*$', '', truncated)
BeforeEnding(truncated) ==
    SubSeq(truncated, 1,
           SetMin({ j \in 1..(Len(truncated) + 1) :
                      \/ j = Len(truncated) + 1
                      \/ StartsAt(truncated, ReadMore, j)
                      \/ StartsAt(truncated, Ellipsis, j) }) - 1)

\* Strategy 5
LastResort(full_text) ==
    IF Len(full_text) > 10
       /\ Len(Strip(BeforeEnding(Strip(PySlice(full_text, 0, 100))))) > 10
    THEN Strip(BeforeEnding(Strip(PySlice(full_text, 0, 100))))
    ELSE <<>>

\* Strategies 3 to 5
TitleByLines(full_text, lines) ==
    IF lines # <<>> /\ _looks_like_article_title(lines[1])
    THEN CleanedLine(lines[1], WithoutCategoryDate(lines[1], 1))
    ELSE IF lines # <<>> THEN lines[1]
    ELSE LastResort(full_text)

TitleByText(full_text) == TitleByLines(full_text, filtered_lines(full_text))

_find_article_title_in_container(dom, container) ==
    IF TitleBySelector(dom, container, 1) # <<>> THEN TitleBySelector(dom, container, 1)
    ELSE TitleByText(get_text(dom, container))

(***************************************************************************)
(* UniversalContentDetector.find_article_links.  links is the Python set:  *)
(* items are its members in the order they were first added, adds is the   *)
(* argument of every links.add call made.                                  *)
(***************************************************************************)
NoLinks == [items |-> <<>>, adds |-> <<>>]

\* links.add(u), appending u whether or not it is a member
ListAppend(links, u) == [items |-> Append(links.items, u), adds |-> Append(links.adds, u)]

\* links.add(u)
SetAdd(links, u) ==
    [items |-> IF u \in Range(links.items) THEN links.items ELSE Append(links.items, u),
     adds |-> Append(links.adds, u)]

\* u in links
InLinks(links, u) == u \in Range(links.items)

\* the elements several selectors select, selector after selector
SelectEach(dom, sels) == Concat([k \in 1..Len(sels) |-> Select(dom, Document, sels[k])])

\* soup.find_all('a', href=True)
AllAnchors(dom) == SelectSeq([n \in 1..Len(dom) |-> n], LAMBDA n : IsAnchorWithHref(dom, n))

link_patterns ==
    << Selector(NoSel, HrefSubSel(<<"/","b","l","o","g","/">>)), Selector(NoSel, HrefSubSel(<<"/","p","o","s","t","/">>)),
       Selector(NoSel, HrefSubSel(<<"/","a","r","t","i","c","l","e","/">>)), Selector(NoSel, HrefSubSel(<<"/","2","0">>)),
       Selector(ClassSel(<<"p","o","s","t","-","l","i","s","t">>), TagSel("a")),
       Selector(ClassSel(<<"a","r","t","i","c","l","e","-","l","i","s","t">>), TagSel("a")),
       Selector(ClassSel(<<"b","l","o","g","-","l","i","s","t">>), TagSel("a")),
       Selector(TagSel("article"), TagSel("a")),
       Selector(ClassSel(<<"e","n","t","r","y">>), TagSel("a")),
       Selector(ClassSel(<<"p","o","s","t">>), TagSel("a")) >>

\* links after u is added when the condition holds
AddIf(links, condition, u) == IF condition THEN SetAdd(links, u) ELSE links

\* the body of the loop over the elements a pattern selects
PatternStep(dom, base_url, element, links) ==
    AddIf(links,
          dom[element].href # <<>>
             /\ _is_likely_article_url(urljoin(base_url, dom[element].href)),
          urljoin(base_url, dom[element].href))

RECURSIVE PatternLoop(_, _, _, _)
PatternLoop(dom, base_url, elements, links) ==
    IF elements = <<>> THEN links
    ELSE PatternLoop(dom, base_url, Tail(elements),
                     PatternStep(dom, base_url, Head(elements), links))

\* the body of the loop of _find_all_potential_article_links
PotentialStep(dom, base_url, link, full_url, links) ==
    AddIf(links,
          /\ dom[link].href # <<>>
          /\ full_url # base_url
          /\ full_url # RStripOf(base_url, {"/"})
          /\ _is_likely_article_url(full_url)
          /\ _has_article_context(dom, link, get_text(dom, link)),
          full_url)

RECURSIVE PotentialLoop(_, _, _, _)
PotentialLoop(dom, base_url, all_links, links) ==
    IF all_links = <<>> THEN links
    ELSE PotentialLoop(dom, base_url, Tail(all_links),
             PotentialStep(dom, base_url, Head(all_links),
                           urljoin(base_url, dom[Head(all_links)].href), links))

_find_all_potential_article_links(dom, base_url, links) ==
    PotentialLoop(dom, base_url, AllAnchors(dom), links)

(***************************************************************************)
(* UniversalContentDetector._find_modern_article_elements                  *)
(***************************************************************************)
clickable_selectors ==
    << Selector(NoSel, StyleSubSel(<<"c","u","r","s","o","r",":","p","o","i","n","t","e","r">>)),
       Selector(NoSel, OnclickSel),
       Selector(NoSel, ClassSubSel("div", <<"h","o","v","e","r">>)),
       Selector(NoSel, ClassSubSel("div", <<"c","a","r","d">>)),
       Selector(NoSel, ClassSubSel("div", <<"i","t","e","m">>)),
       Selector(NoSel, ClassSubSel("div", <<"p","o","s","t">>)),
       Selector(NoSel, ClassSubSel("div", <<"a","r","t","i","c","l","e">>)) >>

\* potential_articles: the selected elements, then all divs, that look like a preview
potential_articles(dom) ==
    SelectSeq(SelectEach(dom, clickable_selectors) \o FindAllTag(dom, Document, "div"),
              LAMBDA n : _looks_like_article_preview(dom, n))

\* the branch for an element with no link inside: the URL made of its title
ModernConstructed(dom, base_url, title_element, links) ==
    IF title_element = None THEN links
    ELSE AddIf(links,
               _construct_article_url(base_url, get_text(dom, title_element)) # <<>>,
               _construct_article_url(base_url, get_text(dom, title_element)))

\* the body of the loop over potential_articles
ModernStep(dom, base_url, article_element, link, links) ==
    IF link # None
    THEN AddIf(links, _is_likely_article_url(urljoin(base_url, dom[link].href)),
               urljoin(base_url, dom[link].href))
    ELSE ModernConstructed(dom, base_url, _find_title_in_element(dom, article_element),
                           links)

RECURSIVE ModernLoop(_, _, _, _)
ModernLoop(dom, base_url, elements, links) ==
    IF elements = <<>> THEN links
    ELSE ModernLoop(dom, base_url, Tail(elements),
                    ModernStep(dom, base_url, Head(elements),
                               FindAnchor(dom, Head(elements)), links))

_find_modern_article_elements(dom, base_url, links) ==
    ModernLoop(dom, base_url, potential_articles(dom), links)

(***************************************************************************)
(* UniversalContentDetector._find_article_cards_aggressive                 *)
(***************************************************************************)
\* 5 <= len(text) <= 300 and self._looks_like_article_title(text)
TitleSized(text) == Len(text) >= 5 /\ Len(text) <= 300 /\ _looks_like_article_title(text)

title_class_indicators == { <<"t","i","t","l","e">>,
 <<"h","e","a","d","i","n","g">>,
 <<"h","e","a","d","l","i","n","e">>,
 <<"n","a","m","e">> }

\* soup.find_all(['div', 'span', 'p'], class_=True) with a title-like class
TitleClassed(dom, n) ==
    /\ dom[n].tag \in {"div", "span", "p"}
    /\ dom[n].class # <<>>
    /\ ContainsAny(Lower(ClassText(dom, n)), title_class_indicators)

\* the elements of potential_titles
potential_titles(dom) ==
    SelectSeq(Concat([k \in 1..Len(HeadingTags) |-> FindAllTag(dom, Document, HeadingTags[k])])
                 \o SelectSeq([n \in 1..Len(dom) |-> n], LAMBDA n : TitleClassed(dom, n)),
              LAMBDA n : TitleSized(get_text(dom, n)))

\* article_url: the link near the heading, else the URL made of the title
NearOrConstructed(near, base_url, title_text) ==
    IF near # <<>> THEN near ELSE _construct_article_url(base_url, title_text)

\* the checks made before links.add(article_url)
AddNew(links, article_url) ==
    AddIf(links,
          article_url # <<>> /\ ~InLinks(links, article_url)
             /\ _is_likely_article_url(article_url),
          article_url)

RECURSIVE AggressiveLoop(_, _, _, _)
AggressiveLoop(dom, base_url, elements, links) ==
    IF elements = <<>> THEN links
    ELSE AggressiveLoop(dom, base_url, Tail(elements),
             AddNew(links,
                    NearOrConstructed(_find_link_near_element(dom, Head(elements), base_url),
                                      base_url, get_text(dom, Head(elements)))))

_find_article_cards_aggressive(dom, base_url, links) ==
    AggressiveLoop(dom, base_url, potential_titles(dom), links)

(***************************************************************************)
(* UniversalContentDetector._find_links_with_scrapy_patterns               *)
(***************************************************************************)
content_selectors ==
    << Selector(TagSel("main"), AnchorSel), Selector(TagSel("article"), AnchorSel),
       Selector(RoleSel(<<"m","a","i","n">>), AnchorSel), Selector(ClassSel(<<"c","o","n","t","e","n","t">>), AnchorSel),
       Selector(ClassSel(<<"p","o","s","t","s">>), AnchorSel), Selector(ClassSel(<<"b","l","o","g">>), AnchorSel),
       Selector(ClassSel(<<"a","r","t","i","c","l","e","s">>), AnchorSel),
       Selector(ClassSel(<<"p","o","s","t","-","l","i","s","t">>), AnchorSel),
       Selector(ClassSel(<<"e","n","t","r","y">>), AnchorSel) >>

modern_patterns ==
    << Selector(OnclickSel, AnchorSel), Selector(StyleSubSel(<<"c","u","r","s","o","r">>), AnchorSel),
       Selector(ClassSel(<<"c","a","r","d">>), AnchorSel), Selector(ClassSel(<<"i","t","e","m">>), AnchorSel),
       Selector(ClassSel(<<"p","o","s","t">>), AnchorSel),
       Selector(ClassSubSel("", <<"c","a","r","d">>), AnchorSel),
       Selector(ClassSubSel("", <<"i","t","e","m">>), AnchorSel),
       Selector(ClassSubSel("", <<"p","o","s","t">>), AnchorSel),
       Selector(ClassSubSel("", <<"a","r","t","i","c","l","e">>), AnchorSel) >>

\* soup.find_all('area', href=True)
AllAreas(dom) ==
    SelectSeq([n \in 1..Len(dom) |-> n], LAMBDA n : dom[n].tag = "area" /\ dom[n].has_href)

\* the body of each of the three loops
ScrapyStep(dom, base_url, element, full_url, links) ==
    AddIf(links,
          /\ dom[element].href # <<>>
          /\ _scrapy_style_link_filter(dom, full_url, get_text(dom, element), element,
                                       base_url)
          /\ ~InLinks(links, full_url),
          full_url)

RECURSIVE ScrapyLoop(_, _, _, _)
ScrapyLoop(dom, base_url, elements, links) ==
    IF elements = <<>> THEN links
    ELSE ScrapyLoop(dom, base_url, Tail(elements),
             ScrapyStep(dom, base_url, Head(elements),
                        urljoin(base_url, dom[Head(elements)].href), links))

_find_links_with_scrapy_patterns(dom, base_url, links) ==
    ScrapyLoop(dom, base_url,
               AllAnchors(dom) \o AllAreas(dom) \o SelectEach(dom, content_selectors)
                  \o SelectEach(dom, modern_patterns),
               links)

(***************************************************************************)
(* UniversalContentDetector._find_spa_clickable_articles                   *)
(***************************************************************************)
\* Strategy 1: the body of the loop over actual_links
ActualStep(dom, base_url, link, full_url, links) ==
    AddIf(links,
          /\ dom[link].href # <<>>
          /\ _is_likely_article_url(full_url)
          /\ ~InLinks(links, full_url)
          /\ Len(get_text(dom, link)) > 5,
          full_url)

RECURSIVE ActualLoop(_, _, _, _)
ActualLoop(dom, base_url, actual_links, links) ==
    IF actual_links = <<>> THEN links
    ELSE ActualLoop(dom, base_url, Tail(actual_links),
             ActualStep(dom, base_url, Head(actual_links),
                        urljoin(base_url, dom[Head(actual_links)].href), links))

\* soup.find_all(attrs={'style': lambda x: x and 'cursor:pointer' in x})
clickable_containers(dom) ==
    SelectSeq([n \in 1..Len(dom) |-> n], LAMBDA n : Contains(dom[n].style, <<"c","u","r","s","o","r",":","p","o","i","n","t","e","r">>))

interactive_terms == { <<"c","l","i","c","k","a","b","l","e">>,
 <<"i","n","t","e","r","a","c","t","i","v","e">>,
 <<"c","a","r","d">>,
 <<"i","t","e","m">> }

\* ' '.join(x) for a string x: its characters with spaces between them
JoinChars(x) == Join([k \in 1..Len(x) |-> <<x[k]>>], <<" ">>)

\* lambda x: x and any(term in ' '.join(x).lower() for term in [...]), given
\* each class name, then the whole class value, as a string
InteractiveClass(node) ==
    \/ \E k \in 1..Len(node.class) :
          ContainsAny(Lower(JoinChars(node.class[k])), interactive_terms)
    \/ node.class # <<>>
          /\ ContainsAny(Lower(JoinChars(JoinSpace(node.class))), interactive_terms)

interactive_containers(dom) ==
    SelectSeq([n \in 1..Len(dom) |-> n], LAMBDA n : InteractiveClass(dom[n]))

\* the body of the loop over all_containers
ContainerStep(base_url, title_text, links) ==
    IF title_text = <<>> \/ ~_looks_like_article_title(title_text) THEN links
    ELSE AddNew(links, _construct_spa_article_url(base_url, title_text))

RECURSIVE ContainerLoop(_, _, _, _)
ContainerLoop(dom, base_url, all_containers, links) ==
    IF all_containers = <<>> THEN links
    ELSE ContainerLoop(dom, base_url, Tail(all_containers),
             ContainerStep(base_url,
                           _find_article_title_in_container(dom, Head(all_containers)),
                           links))

\* len([l for l in links if base_url in l])
CountWith(links, base_url) ==
    Cardinality({ k \in 1..Len(links.items) : Contains(links.items[k], base_url) })

\* Strategy 2
ContainerFallback(dom, base_url, links) ==
    IF CountWith(links, base_url) < 3
    THEN ContainerLoop(dom, base_url,
                       clickable_containers(dom) \o interactive_containers(dom), links)
    ELSE links

_find_spa_clickable_articles(dom, base_url, links) ==
    ContainerFallback(dom, base_url, ActualLoop(dom, base_url, AllAnchors(dom), links))

(***************************************************************************)
(* find_article_links: links as it is before list(links)                   *)
(***************************************************************************)
PatternLinks(dom, base_url) ==
    PatternLoop(dom, base_url, SelectEach(dom, link_patterns), NoLinks)

find_article_links(dom, base_url) ==
    _find_spa_clickable_articles(dom, base_url,
      _find_links_with_scrapy_patterns(dom, base_url,
        _find_article_cards_aggressive(dom, base_url,
          _find_modern_article_elements(dom, base_url,
            _find_all_potential_article_links(dom, base_url,
              PatternLinks(dom, base_url))))))

(***************************************************************************)
(* Pages for find_article_links: up to MaxBlocks blocks, each one of the   *)
(* fragments below, one after the other under the document.  In a          *)
(* fragment the parent of an element is its position in the fragment,      *)
(* Document for the top one.                                               *)
(***************************************************************************)
MaxBlocks == 2

PostHref == <<"/","b","l","o","g","/","m","y","-","p","o","s","t">>

PostTitle == <<"M","y"," ","P","o","s","t">>

PostSummary == <<"A"," ","l","o","n","g"," ","d","e","s","c","r","i","p","t","i","o","n"," ","o","f"," ","t","h","e"," ","p","o","s","t"," ","f","o","r"," ","i","t","s"," ","r","e","a","d","e","r","s",".">>

\* <div class="card"><h3>My Post</h3><p>A long ...</p>
\*   <a href="/blog/my-post">Read the whole post</a></div>
CardWithLink ==
    << Node("div", << <<"c","a","r","d">> >>, FALSE, <<>>, FALSE, <<>>, <<>>, Document),
       Node("h3", <<>>, FALSE, <<>>, FALSE, <<>>, PostTitle, 1),
       Node("p", <<>>, FALSE, <<>>, FALSE, <<>>, PostSummary, 1),
       Node("a", <<>>, TRUE, PostHref, FALSE, <<>>, <<"R","e","a","d"," ","t","h","e"," ","w","h","o","l","e"," ","p","o","s","t">>, 1) >>

\* <article><a href="https://example.com/blog/my-post">My Post in full</a></article>
ArticleWithLink ==
    << Node("article", <<>>, FALSE, <<>>, FALSE, <<>>, <<>>, Document),
       Node("a", <<>>, TRUE, <<"h","t","t","p","s",":","/","/","e","x","a","m","p","l","e",".","c","o","m">> \o PostHref, FALSE, <<>>,
            <<"M","y"," ","P","o","s","t"," ","i","n"," ","f","u","l","l">>, 1) >>

\* <div onclick="open()" style="cursor:pointer"><h3>My Post</h3><p>A long ...</p></div>
ClickableCard ==
    << Node("div", <<>>, FALSE, <<>>, TRUE, <<"c","u","r","s","o","r",":","p","o","i","n","t","e","r">>, <<>>, Document),
       Node("h3", <<>>, FALSE, <<>>, FALSE, <<>>, PostTitle, 1),
       Node("p", <<>>, FALSE, <<>>, FALSE, <<>>, PostSummary, 1) >>

\* <div onclick="open()" style="cursor:pointer"><h3>Book Review</h3><p>A long ...</p></div>
ReviewTitle == <<"B","o","o","k"," ","R","e","v","i","e","w">>

ReviewCard ==
    << Node("div", <<>>, FALSE, <<>>, TRUE, <<"c","u","r","s","o","r",":","p","o","i","n","t","e","r">>, <<>>, Document),
       Node("h3", <<>>, FALSE, <<>>, FALSE, <<>>, ReviewTitle, 1),
       Node("p", <<>>, FALSE, <<>>, FALSE, <<>>, PostSummary, 1) >>

\* <a href="/login/">Login</a>
NavLink ==
    << Node("a", <<>>, TRUE, <<"/","l","o","g","i","n","/">>, FALSE, <<>>, <<"L","o","g","i","n">>, Document) >>

\* <a href="blog/other-post">Other Post story</a>
RelativeLink ==
    << Node("a", <<>>, TRUE, <<"b","l","o","g","/","o","t","h","e","r","-","p","o","s","t">>, FALSE, <<>>, <<"O","t","h","e","r"," ","P","o","s","t"," ","s","t","o","r","y">>,
            Document) >>

\* <div class="post-title">Other Post</div>
TitleBlock ==
    << Node("div", << <<"p","o","s","t","-","t","i","t","l","e">> >>, FALSE, <<>>, FALSE, <<>>, <<"O","t","h","e","r"," ","P","o","s","t">>,
            Document) >>

Fragments == { CardWithLink, ArticleWithLink, ClickableCard, NavLink, RelativeLink, TitleBlock }

\* a fragment placed after offset elements
Placed(fragment, offset) ==
    [k \in 1..Len(fragment) |->
        [fragment[k] EXCEPT !.parent = IF @ = Document THEN Document ELSE @ + offset]]

RECURSIVE Listings(_)
\* the pages of up to n blocks
Listings(n) ==
    IF n = 0 THEN { <<>> }
    ELSE Listings(n - 1)
         \cup { dom \o Placed(f, Len(dom)) : dom \in Listings(n - 1), f \in Fragments }

\* the pages of the card of the review: alone, and before a card with a link
ReviewListings == { ReviewCard, ReviewCard \o Placed(CardWithLink, Len(ReviewCard)) }

BaseUrls == { <<"h","t","t","p","s",":","/","/","e","x","a","m","p","l","e",".","c","o","m">>, <<"h","t","t","p","s",":","/","/","e","x","a","m","p","l","e",".","c","o","m","/","b","l","o","g","/">> }

NotFound == [called |-> FALSE, returned |-> <<>>, adds |-> <<>>]

\* list(links): the members of the set, in an order the set chooses
ListOf(members, order) == [k \in 1..Len(members) |-> members[order[k]]]

Found(links, order) ==
    [called |-> TRUE, returned |-> ListOf(links.items, order), adds |-> links.adds]

\* article_links = detector.find_article_links(soup, base_url)
CallFindArticleLinks ==
    /\ ~article_links.called
    /\ \E links \in { find_article_links(listing, link_base) } :
          \E order \in Permutations(1..Len(links.items)) :
             article_links' = Found(links, order)
    /\ UNCHANGED <<listing, link_base>>
    /\ UNCHANGED <<UrlVars, ArchVars, ChunkVars, ContentVars, RunVars, ItemVars, JobVars>>

(***************************************************************************)
(* re.sub                                                                  *)
(***************************************************************************)
\* the text with the matches of pat that start at starts replaced by repl
SubAt(pat, repl, text, starts) ==
    Concat([k \in 1..Len(starts) |->
               SubSeq(text,
                      (IF k = 1 THEN 0 ELSE MatchEnd(pat, text, starts[k - 1])) + 1,
                      starts[k]) \o repl])
    \o SubSeq(text,
              (IF starts = <<>> THEN 0 ELSE MatchEnd(pat, text, starts[Len(starts)])) + 1,
              Len(text))

\* re.sub(pattern, repl, text)
ReSub(pat, repl, text) == SubAt(pat, repl, text, FindIter(pat, text))

(***************************************************************************)
(* UniversalContentDetector._element_to_markdown.  markdownify(html,      *)
(* heading_style="ATX") is given for elements made of headings,            *)
(* paragraphs, links and containers, with text that needs no escaping.     *)
(***************************************************************************)
\* the child elements of n, in document order
Children(dom, n) == SelectSeq([k \in 1..Len(dom) |-> k], LAMBDA k : dom[k].parent = n)

\* attribute name="value"
Attribute(name, value) == <<" ">> \o name \o <<"=", "\"">> \o value \o <<"\"">>

TagText ==
    [article |-> <<"a","r","t","i","c","l","e">>, main |-> <<"m","a","i","n">>, section |-> <<"s","e","c","t","i","o","n">>, div |-> <<"d","i","v">>,
     p |-> <<"p">>, a |-> <<"a">>, h1 |-> <<"h","1">>, h2 |-> <<"h","2">>, h3 |-> <<"h","3">>, h4 |-> <<"h","4">>,
     h5 |-> <<"h","5">>, h6 |-> <<"h","6">>, span |-> <<"s","p","a","n">>, area |-> <<"a","r","e","a">>,
     script |-> <<"s","c","r","i","p","t">>, meta |-> <<"m","e","t","a">>, title |-> <<"t","i","t","l","e">>]

\* the names of the attributes of attrs, in the order they are written
ExtraNames == <<"rel", "property", "name", "content">>

AttrText == [rel |-> <<"r","e","l">>, property |-> <<"p","r","o","p","e","r","t","y">>, name |-> <<"n","a","m","e">>, content |-> <<"c","o","n","t","e","n","t">>]

HasAttr(node, name) == "attrs" \in DOMAIN node /\ name \in DOMAIN node.attrs

ExtraAttributes(node) ==
    Concat([k \in 1..Len(ExtraNames) |->
              IF HasAttr(node, ExtraNames[k])
              THEN Attribute(AttrText[ExtraNames[k]], node.attrs[ExtraNames[k]])
              ELSE <<>>])

\* the attributes of the start tag
Attributes(node) ==
    (IF node.class # <<>> THEN Attribute(<<"c","l","a","s","s">>, JoinSpace(node.class)) ELSE <<>>)
    \o (IF node.has_href THEN Attribute(<<"h","r","e","f">>, node.href) ELSE <<>>)
    \o (IF node.onclick THEN Attribute(<<"o","n","c","l","i","c","k">>, <<>>) ELSE <<>>)
    \o (IF node.style # <<>> THEN Attribute(<<"s","t","y","l","e">>, node.style) ELSE <<>>)
    \o (IF node.role # <<>> THEN Attribute(<<"r","o","l","e">>, node.role) ELSE <<>>)
    \o ExtraAttributes(node)

RECURSIVE Serialize(_, _)
\* str(element)
Serialize(dom, n) ==
    <<"<">> \o TagText[dom[n].tag] \o Attributes(dom[n]) \o <<">">>
    \o dom[n].text
    \o Concat([k \in 1..Len(Children(dom, n)) |-> Serialize(dom, Children(dom, n)[k])])
    \o <<"<", "/">> \o TagText[dom[n].tag] \o <<">">>

\* element.get_text()
RawText(dom, a) ==
    Concat([n \in 1..Len(dom) |-> IF n = a \/ Inside(dom, n, a) THEN dom[n].text ELSE <<>>])

HeadingLevel == [h1 |-> 1, h2 |-> 2, h3 |-> 3, h4 |-> 4, h5 |-> 5, h6 |-> 6]

BlankLine == <<"\n", "\n">>

\* markdownify's conversion of one element whose converted content is inner
Converted(node, inner) ==
    IF node.tag \in DOMAIN HeadingLevel
    THEN IF Strip(inner) = <<>> THEN <<>>
         ELSE BlankLine \o [k \in 1..HeadingLevel[node.tag] |-> "#"] \o <<" ">>
              \o Strip(inner) \o BlankLine
    ELSE IF node.tag = "p"
    THEN IF Strip(inner) = <<>> THEN <<>> ELSE BlankLine \o Strip(inner) \o BlankLine
    ELSE IF node.tag = "a"
    THEN IF Strip(inner) = <<>> THEN <<>>
         ELSE IF ~node.has_href \/ node.href = <<>> THEN inner
         ELSE IF inner = node.href THEN <<"<">> \o node.href \o <<">">>
         ELSE <<"[">> \o inner \o <<"]", "(">> \o node.href \o <<")">>
    ELSE inner

RECURSIVE markdownify(_, _)
markdownify(dom, n) ==
    Converted(dom[n],
              dom[n].text
              \o Concat([k \in 1..Len(Children(dom, n)) |->
                            markdownify(dom, Children(dom, n)[k])]))

junk_classes == { <<"a","d">>,
 <<"a","d","v","e","r","t","i","s","e","m","e","n","t">>,
 <<"s","o","c","i","a","l">>,
 <<"s","h","a","r","e">>,
 <<"r","e","l","a","t","e","d">>,
 <<"c","o","m","m","e","n","t","s">> }

\* the page after el.decompose() of the elements of the junk classes inside element;
\* an element that is taken out has parent None
_clean_element(dom, element) ==
    [n \in 1..Len(dom) |->
        IF Inside(dom, n, element)
           /\ \E k \in 1..Len(dom[n].class) : dom[n].class[k] \in junk_classes
        THEN [dom[n] EXCEPT !.parent = None]
        ELSE dom[n]]

\* \n\s*\n\s*\n
excess_blank_pattern ==
    <<ExactItem("\n"), ClassItem("space", 0, Unbounded), ExactItem("\n"),
      ClassItem("space", 0, Unbounded), ExactItem("\n")>>

\* \[\]\([^)]*\)
empty_link_pattern ==
    <<ExactItem("["), ExactItem("]"), ExactItem("("), ClassItem("not_rparen", 0, Unbounded),
      ExactItem(")")>>

_clean_markdown(markdown) ==
    Strip(ReSub(empty_link_pattern, <<>>, ReSub(excess_blank_pattern, BlankLine, markdown)))

\* what a strategy hands back: the content, <<>> for None, and the page as
\* _clean_element left it
Extraction(content, dom) == [content |-> content, dom |-> dom]

Cleaned(dom, element) == Extraction(_clean_markdown(markdownify(dom, element)), dom)

_element_to_markdown(dom, element) == Cleaned(_clean_element(dom, element), element)

\* return self._element_to_markdown(element) when there is an element, else None
ExtractFrom(dom, element) ==
    IF element = None THEN Extraction(<<>>, dom) ELSE _element_to_markdown(dom, element)

(***************************************************************************)
(* The four strategies of extract_main_content                             *)
(***************************************************************************)
semantic_tags ==
    << Selector(NoSel, TagSel("article")), Selector(NoSel, TagSel("main")),
       Selector(NoSel, RoleSel(<<"m","a","i","n">>)) >>

content_class_patterns ==
    << Selector(NoSel, ClassSel(<<"p","o","s","t","-","c","o","n","t","e","n","t">>)), Selector(NoSel, ClassSel(<<"e","n","t","r","y","-","c","o","n","t","e","n","t">>)),
       Selector(NoSel, ClassSel(<<"a","r","t","i","c","l","e","-","c","o","n","t","e","n","t">>)), Selector(NoSel, ClassSel(<<"c","o","n","t","e","n","t">>)),
       Selector(NoSel, ClassSel(<<"m","a","i","n","-","c","o","n","t","e","n","t">>)), Selector(NoSel, ClassSel(<<"p","o","s","t","-","b","o","d","y">>)),
       Selector(NoSel, ClassSel(<<"e","n","t","r","y","-","b","o","d","y">>)) >>

RECURSIVE FirstSelected(_, _, _)
\* the element of the first selector, from selector k on, that selects one
FirstSelected(dom, sels, k) ==
    IF k > Len(sels) THEN None
    ELSE IF Select(dom, Document, sels[k]) # <<>> THEN Select(dom, Document, sels[k])[1]
    ELSE FirstSelected(dom, sels, k + 1)

_extract_by_semantic_tags(dom) == ExtractFrom(dom, FirstSelected(dom, semantic_tags, 1))

_extract_by_common_classes(dom) ==
    ExtractFrom(dom, FirstSelected(dom, content_class_patterns, 1))

\* the tests an element passes to be appended to candidates
IsCandidate(dom, n, text_length, html_length) ==
    /\ get_text(dom, n) # <<>>
    /\ ~(html_length > 0 /\ 10 * text_length < html_length)
    /\ text_length >= 200

\* the elements of candidates
candidates(dom) ==
    SelectSeq(Descendants(dom, Document),
              LAMBDA n : /\ dom[n].tag \in {"div", "section", "article"}
                         /\ IsCandidate(dom, n, Len(RawText(dom, n)), Len(Serialize(dom, n))))

\* max(candidates, key=lambda x: x[1])[0]: the first of those with the most text
best_element(dom, cands) ==
    IF cands = <<>> THEN None
    ELSE cands[SetMin({ k \in 1..Len(cands) :
                          \A j \in 1..Len(cands) :
                             Len(RawText(dom, cands[j])) <= Len(RawText(dom, cands[k])) })]

_extract_by_content_density(dom) == ExtractFrom(dom, best_element(dom, candidates(dom)))

\* the first element with more than 500 characters of text
Substantial(dom) ==
    FirstOf(SelectSeq(Descendants(dom, Document),
                      LAMBDA n : /\ dom[n].tag \in {"div", "section", "article", "main"}
                                 /\ Len(get_text(dom, n)) > 500))

_extract_by_text_length(dom) == ExtractFrom(dom, Substantial(dom))

\* the character ` of the markup characters
Backtick == "backtick"

markup_characters == {"#", "*", "[", "]", "(", ")", "_", Backtick, "-"}

\* re.sub of the markup characters by ''
text_content(content) == SelectSeq(content, LAMBDA c : c \notin markup_characters)

\* the test without the one on the length
IsQualityContentByRatioOnly(content) ==
    IF content = <<>> THEN FALSE ELSE 2 * Len(text_content(content)) > Len(content)

_is_quality_content(content) ==
    IF content = <<>> \/ Len(Strip(content)) < 100 THEN FALSE
    ELSE 2 * Len(text_content(content)) > Len(content)

strategies == <<"semantic_tags", "common_classes", "content_density", "text_length">>

\* strategy(soup)
Strategy(name, dom) ==
    CASE name = "semantic_tags" -> _extract_by_semantic_tags(dom)
      [] name = "common_classes" -> _extract_by_common_classes(dom)
      [] name = "content_density" -> _extract_by_content_density(dom)
      [] name = "text_length" -> _extract_by_text_length(dom)

\* what extract_main_content returns: content, <<>> for None; with it the
\* position of the strategy it came from and what the strategies before gave
Extracted(content, strategy, tried) ==
    [content |-> content, strategy |-> strategy, tried |-> tried]

RECURSIVE StrategyLoop(_, _, _)
RECURSIVE StrategyStep(_, _, _)
\* the body of the loop over strategies
StrategyStep(got, k, tried) ==
    IF got.content # <<>> /\ _is_quality_content(got.content)
    THEN Extracted(got.content, k, tried)
    ELSE StrategyLoop(got.dom, k + 1, Append(tried, got.content))

StrategyLoop(dom, k, tried) ==
    IF k > Len(strategies) THEN Extracted(<<>>, 0, tried)
    ELSE StrategyStep(Strategy(strategies[k], dom), k, tried)

extract_main_content(dom) == StrategyLoop(dom, 1, <<>>)

(***************************************************************************)
(* UniversalScraper._scrape_article.  A ContentItem is given by its        *)
(* content and source_url.                                                 *)
(***************************************************************************)
ContentItem(content, source_url) == [content |-> content, source_url |-> source_url]

\* the pages a fetch gives: soup, or None when the fetch failed
Soup(dom) == [ok |-> TRUE, dom |-> dom]

NoSoup == [ok |-> FALSE, dom |-> <<>>]

\* what _scrape_article returns: the item when there is one; with it what
\* extract_main_content returned
Scraped(has_item, item, extracted) ==
    [has_item |-> has_item, item |-> item, extracted |-> extracted]

\* the part of _scrape_article after the content is extracted
ScrapedFrom(u, extracted) ==
    IF extracted.content = <<>> \/ Len(Strip(extracted.content)) < 100
    THEN Scraped(FALSE, ContentItem(<<>>, <<>>), extracted)
    ELSE Scraped(TRUE, ContentItem(extracted.content, u), extracted)

_scrape_article(u, page) ==
    IF ~page.ok THEN Scraped(FALSE, ContentItem(<<>>, <<>>), Extracted(<<>>, 0, <<>>))
    ELSE ScrapedFrom(u, extract_main_content(page.dom))

(***************************************************************************)
(* Article pages: up to MaxParts parts, each one of the fragments below    *)
(***************************************************************************)
MaxParts == 2

\* n characters of words
Prose(n) == [i \in 1..n |-> IF i % 7 = 0 THEN " " ELSE "w"]

\* n characters of brackets
Brackets(n) == [i \in 1..n |-> IF i % 2 = 1 THEN "(" ELSE ")"]

Plain(tag, text, parent) == Node(tag, <<>>, FALSE, <<>>, FALSE, <<>>, text, parent)

Classed(tag, class, parent) == Node(tag, <<class>>, FALSE, <<>>, FALSE, <<>>, <<>>, parent)

\* <article><h1>A title</h1><p>120 characters</p></article>
LongArticle ==
    << Plain("article", <<>>, Document), Plain("h1", <<"A"," ","t","i","t","l","e">>, 1), Plain("p", Prose(120), 1) >>

\* <article><p>80 characters</p></article>
ShortArticle == << Plain("article", <<>>, Document), Plain("p", Prose(80), 1) >>

\* <main><p>90 characters</p><div class="related"><p>60 characters</p></div></main>
MainWithRelated ==
    << Plain("main", <<>>, Document), Plain("p", Prose(90), 1),
       Classed("div", <<"r","e","l","a","t","e","d">>, 1), Plain("p", Prose(60), 3) >>

\* <div class="content"><p>150 characters</p></div>
ContentDiv == << Classed("div", <<"c","o","n","t","e","n","t">>, Document), Plain("p", Prose(150), 1) >>

LinkHref == <<"/","a","-","b","-","c","-","d","-","e","-","f">>

PageLink(parent) == Node("a", <<>>, TRUE, LinkHref, FALSE, <<>>, <<"x">>, parent)

\* <div class="entry-content"><p><a href="/a-b-c-d-e-f">x</a> (six times)</p></div>
LinkFarm ==
    << Classed("div", <<"e","n","t","r","y","-","c","o","n","t","e","n","t">>, Document), Plain("p", <<>>, 1),
       PageLink(2), PageLink(2), PageLink(2), PageLink(2), PageLink(2), PageLink(2) >>

\* <section><p>250 characters</p></section>
DenseSection == << Plain("section", <<>>, Document), Plain("p", Prose(250), 1) >>

\* <div><p>520 characters of brackets</p></div>
BracketBlock == << Plain("div", <<>>, Document), Plain("p", Brackets(520), 1) >>

\* <div><p>510 characters</p></div>
LongBlock == << Plain("div", <<>>, Document), Plain("p", Prose(510), 1) >>

ArticleFragments ==
    { LongArticle, ShortArticle, MainWithRelated, ContentDiv, LinkFarm, DenseSection,
      BracketBlock, LongBlock }

RECURSIVE ArticlePages(_)
\* the pages of up to n parts
ArticlePages(n) ==
    IF n = 0 THEN { <<>> }
    ELSE ArticlePages(n - 1)
         \cup { dom \o Placed(f, Len(dom)) : dom \in ArticlePages(n - 1),
                                              f \in ArticleFragments }

ArticleUrl == <<"h","t","t","p","s",":","/","/","e","x","a","m","p","l","e",".","c","o","m","/","b","l","o","g","/","m","y","-","p","o","s","t">>

NotScraped == [called |-> FALSE, result |-> Scraped(FALSE, ContentItem(<<>>, <<>>), Extracted(<<>>, 0, <<>>))]

\* item = self._scrape_article(url, use_js), the fetch giving the page fetched
CallScrapeArticle ==
    /\ ~article.called
    /\ article' = [called |-> TRUE, result |-> _scrape_article(ArticleUrl, fetched)]
    /\ UNCHANGED fetched
    /\ UNCHANGED <<UrlVars, ArchVars, ChunkVars, LinkVars, RunVars, ItemVars, JobVars>>

(***************************************************************************)
(* UniversalScraper over a site.  A site is what the fetches of one source *)
(* give: home the plain fetch of base_url, driver whether _init_driver     *)
(* gets a WebDriver, rendered the page Selenium gives for base_url,        *)
(* playwright the page Playwright gives for it, fallback the page of the   *)
(* plain fetch of _fetch_with_requests_fallback, articles the page of      *)
(* every other URL that can be fetched, navigation the URL the browser     *)
(* goes to when the container of a title is clicked.  A config is          *)
(* [max_articles].                                                         *)
(***************************************************************************)
Site(base_url, home, driver, rendered, playwright, fallback, articles, navigation) ==
    [base_url |-> base_url, home |-> home, driver |-> driver, rendered |-> rendered,
     playwright |-> playwright, fallback |-> fallback, articles |-> articles,
     navigation |-> navigation]

\* the page at a URL other than base_url; None when the fetch fails
PageAt(site, u) == IF u \in DOMAIN site.articles THEN site.articles[u] ELSE NoSoup

_fetch_with_selenium(site, u) ==
    IF ~site.driver THEN NoSoup
    ELSE IF u = site.base_url THEN site.rendered
    ELSE PageAt(site, u)

_fetch_page(site, u, use_js) ==
    IF use_js THEN _fetch_with_selenium(site, u)
    ELSE IF u = site.base_url THEN site.home
    ELSE PageAt(site, u)

(***************************************************************************)
(* What a scraper does that is seen from outside, in the order it does it: *)
(* a backend asked for a page ("fetch", with whether it gave one), a       *)
(* browser resource started or quit, a call of a configured                *)
(* progress_callback(current, total, url), the start of click discovery,   *)
(* a ContentItem made for a URL.                                           *)
(***************************************************************************)
Event(kind, what, u, ok, current, total) ==
    [kind |-> kind, what |-> what, url |-> u, ok |-> ok, current |-> current, total |-> total]

Fetch(backend, u, page) == Event("fetch", backend, u, page.ok, 0, 0)

Start(resource) == Event("start", resource, <<>>, TRUE, 0, 0)

Quit(resource) == Event("quit", resource, <<>>, TRUE, 0, 0)

\* progress_callback(current, total, u) called in the function caller
Progress(caller, current, total, u) == Event("progress", caller, u, TRUE, current, total)

\* ContentItem(..., source_url=u) made in the function caller
Built(caller, u) == Event("item", caller, u, TRUE, 0, 0)

ClickDiscoveryStarted == Event("click_discovery", "selenium", <<>>, TRUE, 0, 0)

\* self.driver is set
HasDriver(events) == \E k \in 1..Len(events) : events[k] = Start("driver")

\* if not self.driver: self._init_driver()
InitDriver(site, events) ==
    IF site.driver /\ ~HasDriver(events) THEN Append(events, Start("driver")) ELSE events

\* the events of _fetch_with_selenium(u)
SeleniumCalls(site, u, events) ==
    Append(InitDriver(site, events), Fetch("selenium", u, _fetch_with_selenium(site, u)))

\* the events of _fetch_page(u, use_js)
FetchPageCalls(site, u, use_js, events) ==
    IF use_js THEN SeleniumCalls(site, u, events)
    ELSE Append(events, Fetch("requests", u, _fetch_page(site, u, FALSE)))

\* what _init_playwright_driver starts; a Playwright that gives no page
\* is one that could not be started
PlaywrightResources == <<Start("playwright"), Start("browser"), Start("page")>>

\* the events of _fetch_with_playwright(base_url)
PlaywrightCalls(site, events) ==
    Append(IF site.playwright.ok THEN events \o PlaywrightResources ELSE events,
           Fetch("playwright", site.base_url, site.playwright))

\* the events of close()
close(events) == IF HasDriver(events) THEN Append(events, Quit("driver")) ELSE events

\* the attributes of an element as name and value pairs
AttributePairs(node) ==
    (IF node.class # <<>> THEN << <<AttrClass, JoinSpace(node.class)>> >> ELSE <<>>)
    \o (IF node.has_href THEN << <<<<"h","r","e","f">>, node.href>> >> ELSE <<>>)
    \o (IF node.onclick THEN << <<<<"o","n","c","l","i","c","k">>, <<>> >> >> ELSE <<>>)
    \o (IF node.style # <<>> THEN << <<<<"s","t","y","l","e">>, node.style>> >> ELSE <<>>)
    \o (IF node.role # <<>> THEN << <<<<"r","o","l","e">>, node.role>> >> ELSE <<>>)
    \o SelectSeq([k \in 1..Len(ExtraNames) |->
                    <<AttrText[ExtraNames[k]], Attr(node, ExtraNames[k])>>],
                 LAMBDA pair : \E k \in 1..Len(ExtraNames) :
                                  AttrText[ExtraNames[k]] = pair[1] /\ HasAttr(node, ExtraNames[k]))

\* the soup as detect_architecture reads it: its elements in document order
AsPage(dom) ==
    [n \in 1..Len(dom) |-> Element(TagText[dom[n].tag], AttributePairs(dom[n]), dom[n].text)]

(***************************************************************************)
(* UniversalScraper._fetch_with_requests_fallback                          *)
(***************************************************************************)
fallback_selectors ==
    << Selector(NoSel, HrefSubSel(<<"b","l","o","g">>)), Selector(NoSel, HrefSubSel(<<"p","o","s","t">>)),
       Selector(NoSel, HrefSubSel(<<"a","r","t","i","c","l","e">>)),
       Selector(ClassSel(<<"p","o","s","t","-","t","i","t","l","e">>), TagSel("a")),
       Selector(ClassSel(<<"b","l","o","g","-","p","o","s","t">>), TagSel("a")),
       Selector(ClassSel(<<"a","r","t","i","c","l","e","-","t","i","t","l","e">>), TagSel("a")),
       Selector(TagSel("h2"), TagSel("a")), Selector(TagSel("h3"), TagSel("a")),
       Selector(ClassSel(<<"e","n","t","r","y","-","t","i","t","l","e">>), TagSel("a")),
       Selector(NoSel, ClassSel(<<"p","o","s","t","-","l","i","n","k">>)) >>

LinkInfo(u, title) == [url |-> u, title |-> title]

\* Make absolute URL
AbsoluteHref(u, href) ==
    IF StartsWith(href, <<"/">>) \/ ~StartsWith(href, <<"h","t","t","p">>) THEN urljoin(u, href)
    ELSE href

\* the body of the loop over found_links
FallbackStep(dom, u, link, links) ==
    IF dom[link].has_href /\ dom[link].href # <<>> /\ Len(get_text(dom, link)) > 10
    THEN Append(links, LinkInfo(AbsoluteHref(u, dom[link].href), get_text(dom, link)))
    ELSE links

RECURSIVE FallbackLoop(_, _, _, _)
FallbackLoop(dom, u, found_links, links) ==
    IF found_links = <<>> THEN links
    ELSE FallbackLoop(dom, u, Tail(found_links),
                      FallbackStep(dom, u, Head(found_links), links))

\* Remove duplicates: the first link of every url
unique_links(links) ==
    LET First(k) == \A j \in 1..(k - 1) : links[j].url # links[k].url
        kept == SelectSeq([k \in 1..Len(links) |-> k], First)
    IN  [k \in 1..Len(kept) |-> links[kept[k]]]

\* s[:n]
Prefix(s, n) == SubSeq(s, 1, Min(n, Len(s)))

_fetch_with_requests_fallback(site) ==
    IF ~site.fallback.ok THEN <<>>
    ELSE Prefix(unique_links(FallbackLoop(site.fallback.dom, site.base_url,
                                          SelectEach(site.fallback.dom, fallback_selectors),
                                          <<>>)),
                20)

PreviewPrefix == <<"A","r","t","i","c","l","e"," ","p","r","e","v","i","e","w",":"," ">>

PreviewSuffix == <<" ","(","B","r","o","w","s","e","r","-","b","a","s","e","d"," ","s","c","r","a","p","i","n","g"," ","n","o","t"," ","a","v","a","i","l","a","b","l","e"," ","i","n"," ","t","h","i","s"," ","e","n","v","i","r","o","n","m","e","n","t",")">>

\* the items made of the fallback links
Placeholder(link_info) ==
    ContentItem(PreviewPrefix \o link_info.title \o PreviewSuffix, link_info.url)

Placeholders(fallback_links) ==
    [k \in 1..Len(fallback_links) |-> Placeholder(fallback_links[k])]

(***************************************************************************)
(* UniversalScraper._scrape_with_click_discovery.  The text of a WebElement *)
(* is the text of the element; the XPath test contains(text(), ...) reads  *)
(* the string h1 starts with.                                              *)
(***************************************************************************)
click_platforms ==
    { <<"q","u","i","l","l",".","c","o","/","b","l","o","g">>,
 <<"s","u","b","s","t","a","c","k",".","c","o","m">>,
 <<"m","e","d","i","u","m",".","c","o","m">>,
 <<"g","h","o","s","t",".","o","r","g">>,
 <<"n","o","t","i","o","n",".","s","i","t","e">> }

_should_use_click_discovery(base_url) == ContainsAny(Lower(base_url), click_platforms)

PointerStyle == <<"c","u","r","s","o","r",":","p","o","i","n","t","e","r">>

excluded_titles == { <<"B","l","o","g">>,
 <<"P","r","o","d","u","c","t">>,
 <<"D","o","c","s">>,
 <<"H","o","m","e">> }

\* driver.find_elements(By.CSS_SELECTOR, '[style*="cursor:pointer"]')
PointerContainers(dom) == Select(dom, Document, Selector(NoSel, StyleSubSel(PointerStyle)))

\* h1_elements[0].text.strip(), <<>> when the container has no h1
Headline(dom, container) ==
    IF FindAllTag(dom, container, "h1") = <<>> THEN <<>>
    ELSE Strip(RawText(dom, FindAllTag(dom, container, "h1")[1]))

\* the body of the loop that collects the titles
TitleStep(title, all_titles) ==
    IF title # <<>> /\ Len(title) >= 15 /\ title \notin excluded_titles
          /\ title \notin Range(all_titles)
    THEN Append(all_titles, title)
    ELSE all_titles

RECURSIVE TitleLoop(_, _, _)
TitleLoop(dom, containers, all_titles) ==
    IF containers = <<>> THEN all_titles
    ELSE TitleLoop(dom, Tail(containers),
                   TitleStep(Headline(dom, Head(containers)), all_titles))

\* the page the browser shows at a location
DomAt(site, location) ==
    IF location = site.base_url THEN site.rendered.dom ELSE PageAt(site, location).dom

\* //div[contains(@style, "cursor:pointer")]//h1[contains(text(), "part")]
\*   /ancestor::div[contains(@style, "cursor:pointer")]
IsPointerDiv(dom, n) == dom[n].tag = "div" /\ Contains(dom[n].style, PointerStyle)

containers_with_title(dom, part) ==
    SelectSeq([n \in 1..Len(dom) |-> n],
              LAMBDA n : /\ IsPointerDiv(dom, n)
                         /\ \E h \in 1..Len(dom) :
                               /\ dom[h].tag = "h1"
                               /\ Inside(dom, h, n)
                               /\ Contains(dom[h].text, part))

\* the browser, the URLs discovered and the events so far:
\* [location, discovered_urls, events]
Clicking(location, discovered_urls, events) ==
    [location |-> location, discovered_urls |-> discovered_urls, events |-> events]

\* candidate idx of total tested with the browser at a location: whether its
\* container was found and clicked there, and how the test ended ("error",
\* "not_found", "timeout", "recorded" or "duplicate")
Tested(outcome, location, clicked, idx, total) ==
    Event("click", outcome, location, clicked, idx, total)

\* where the click on the container of a title takes the browser; <<>>
\* when the URL does not change
Target(site, title) ==
    IF title \in DOMAIN site.navigation THEN site.navigation[title] ELSE <<>>

\* the except branch: back to the listing when the browser is elsewhere
Recovered(site, st, tested) ==
    Clicking(site.base_url, st.discovered_urls, Append(st.events, tested))

\* the else branch of the test of new_url: the browser stays where the click
\* took it
Duplicate(new_url, st, tested) ==
    Clicking(new_url, st.discovered_urls, Append(st.events, tested))

\* after the click, the URL having changed to new_url
Navigated(site, title, new_url, idx, total, st) ==
    IF \A k \in 1..Len(st.discovered_urls) : st.discovered_urls[k].url # new_url
    THEN Clicking(site.base_url, Append(st.discovered_urls, LinkInfo(new_url, title)),
                  Append(st.events, Tested("recorded", st.location, TRUE, idx, total)))
    ELSE Duplicate(new_url, st, Tested("duplicate", st.location, TRUE, idx, total))

\* title idx of all_titles (from 1) tested
ClickStep(site, title, idx, total, st) ==
    IF "\"" \in Range(Prefix(title, 30))
    THEN Recovered(site, st, Tested("error", st.location, FALSE, idx, total))
    ELSE IF containers_with_title(DomAt(site, st.location), Prefix(title, 30)) = <<>>
    THEN Clicking(st.location, st.discovered_urls,
                  Append(st.events, Tested("not_found", st.location, FALSE, idx, total)))
    ELSE IF Target(site, title) \in {<<>>, st.location}
    THEN Recovered(site, st, Tested("timeout", st.location, TRUE, idx, total))
    ELSE Navigated(site, title, Target(site, title), idx, total, st)

RECURSIVE ClickLoop(_, _, _, _, _)
\* for idx, title in enumerate(all_titles), from title idx on
ClickLoop(site, config, all_titles, idx, st) ==
    IF idx > Len(all_titles) \/ Len(st.discovered_urls) >= config.max_articles THEN st
    ELSE ClickLoop(site, config, all_titles, idx + 1,
                   ClickStep(site, all_titles[idx], idx, Len(all_titles), st))

\* the items and the events of a loop so far
Discovering(collected, events) == [items |-> collected, events |-> events]

\* the body of the loop over discovered_urls, article_info being entry i
\* of total (from 1), page what driver.get(url) shows and content what
\* extract_main_content gets from it
DiscoveredStep(article_info, i, total, page, content, st) ==
    IF content # <<>> /\ Len(Strip(content)) >= 100
    THEN Discovering(Append(st.items, ContentItem(content, article_info.url)),
                     st.events \o <<Progress("_scrape_with_click_discovery", i, total,
                                             article_info.url),
                                    Fetch("selenium", article_info.url, page),
                                    Built("_scrape_with_click_discovery", article_info.url)>>)
    ELSE Discovering(st.items,
                     st.events \o <<Progress("_scrape_with_click_discovery", i, total,
                                             article_info.url),
                                    Fetch("selenium", article_info.url, page)>>)

\* the content extracted from a fetched page, <<>> when there is no page
ContentOf(page) == IF page.ok THEN extract_main_content(page.dom).content ELSE <<>>

RECURSIVE DiscoveredLoop(_, _, _, _)
\* for i, article_info in enumerate(discovered_urls, 1), from entry i on
DiscoveredLoop(site, discovered_urls, i, st) ==
    IF i > Len(discovered_urls) THEN st
    ELSE DiscoveredLoop(site, discovered_urls, i + 1,
             DiscoveredStep(discovered_urls[i], i, Len(discovered_urls),
                            PageAt(site, discovered_urls[i].url),
                            ContentOf(PageAt(site, discovered_urls[i].url)), st))

\* the articles of discovered_urls scraped after the candidate loop
ScrapeDiscovered(site, clicked) ==
    DiscoveredLoop(site, clicked.discovered_urls, 1, Discovering(<<>>, clicked.events))

\* click discovery once the driver has loaded the listing
ClickAndScrape(site, config, events) ==
    ScrapeDiscovered(site,
        ClickLoop(site, config,
                  TitleLoop(site.rendered.dom, PointerContainers(site.rendered.dom), <<>>),
                  1, Clicking(site.base_url, <<>>, events)))

\* click discovery with a driver: driver.get(base_url) raises when Selenium
\* gives no page for the listing
ClickWithDriver(site, config, events) ==
    IF ~site.rendered.ok
    THEN Discovering(<<>>, Append(events, Fetch("selenium", site.base_url, site.rendered)))
    ELSE ClickAndScrape(site, config,
                        Append(events, Fetch("selenium", site.base_url, site.rendered)))

\* the items it returns and the events up to its return
_scrape_with_click_discovery(site, config, events) ==
    IF ~site.driver THEN Discovering(<<>>, Append(events, ClickDiscoveryStarted))
    ELSE ClickWithDriver(site, config, InitDriver(site, Append(events, ClickDiscoveryStarted)))

(***************************************************************************)
(* UniversalScraper.scrape.  What it returns is [items, path, events,      *)
(* locals]: the items, the return statement taken, the events up to the    *)
(* return and the local variables at the return.                           *)
(***************************************************************************)
\* architecture['strategy'], article_links and click_discovered_articles,
\* "none" and empty lists for those not assigned
Locals(strategy, urls, clicked) ==
    [strategy |-> strategy, article_links |-> urls, click_discovered_articles |-> clicked]

Returns(collected, path, events, locals) ==
    [items |-> collected, path |-> path, events |-> events, locals |-> locals]

\* the articles scraped so far: [items, scraped_urls, events]
Scraping(collected, scraped_urls, events) ==
    [items |-> collected, scraped_urls |-> scraped_urls, events |-> events]

\* the loop giving up the items it has when a URL gives no item
AfterScrapeDropping(u, got, events, st) ==
    IF got.has_item
    THEN Scraping(Append(st.items, got.item), st.scraped_urls \cup {u},
                  Append(events, Built("_scrape_article", u)))
    ELSE Scraping(<<>>, {}, events)

\* the body of the loop over article_links[:max_articles] for a URL not in
\* scraped_urls: got is what _scrape_article gave, events the events after it
AfterScrape(u, got, events, st) ==
    IF got.has_item
    THEN Scraping(Append(st.items, got.item), st.scraped_urls \cup {u},
                  Append(events, Built("_scrape_article", u)))
    ELSE Scraping(st.items, st.scraped_urls, events)

\* the body of the loop, u being entry i (from 0) of the total_articles
ArticleStep(site, needs_js, u, i, total_articles, st) ==
    IF u \in st.scraped_urls THEN st
    ELSE AfterScrape(u, _scrape_article(u, _fetch_page(site, u, needs_js)),
                  FetchPageCalls(site, u, needs_js,
                                 Append(st.events, Progress("scrape", i + 1, total_articles, u))),
                  st)

RECURSIVE ArticleLoop(_, _, _, _, _)
\* for i, url in enumerate(article_links[:max_articles]), from entry i on
ArticleLoop(site, needs_js, urls, i, st) ==
    IF i >= Len(urls) THEN st
    ELSE ArticleLoop(site, needs_js, urls, i + 1,
                     ArticleStep(site, needs_js, urls[i + 1], i, Len(urls), st))

\* the soup of the main page when the architecture needs JavaScript:
\* Selenium, then Playwright
Refetched(site) ==
    IF _fetch_page(site, site.base_url, TRUE).ok THEN _fetch_page(site, site.base_url, TRUE)
    ELSE site.playwright

\* the refetch asking every backend whatever the earlier ones gave
RefetchCallsEveryBackend(site, events) ==
    Append(PlaywrightCalls(site, FetchPageCalls(site, site.base_url, TRUE, events)),
           Fetch("fallback", site.base_url, site.fallback))

\* the events of the refetch: Selenium, Playwright when it gives no page,
\* the requests fallback when Playwright gives none either
RefetchCalls(site, events) ==
    IF _fetch_page(site, site.base_url, TRUE).ok
    THEN FetchPageCalls(site, site.base_url, TRUE, events)
    ELSE IF site.playwright.ok
    THEN PlaywrightCalls(site, FetchPageCalls(site, site.base_url, TRUE, events))
    ELSE Append(PlaywrightCalls(site, FetchPageCalls(site, site.base_url, TRUE, events)),
                Fetch("fallback", site.base_url, site.fallback))

\* architecture['needs_js'] for the main page
NeedsJs(site) == detect_architecture(AsPage(site.home.dom)).needs_js

\* the soup scrape gives to find_article_links, None when it returns before
ListingSoup(site) ==
    IF ~site.home.ok THEN NoSoup
    ELSE IF NeedsJs(site) THEN Refetched(site)
    ELSE site.home

\* the events of scrape up to find_article_links or to the return before it
ListingCalls(site) ==
    IF site.home.ok /\ NeedsJs(site)
    THEN RefetchCalls(site, <<Fetch("requests", site.base_url, site.home)>>)
    ELSE <<Fetch("requests", site.base_url, site.home)>>

\* architecture['strategy'] for the main page
StrategyOf(site) == detect_architecture(AsPage(site.home.dom)).strategy

\* scrape scraping the links of find_article_links whatever click discovery gave
ScrapeLinksPatternOnly(site, config, needs_js, urls, clicked) ==
    Returns(ArticleLoop(site, needs_js, Prefix(urls, config.max_articles), 0,
                        Scraping(<<>>, {}, clicked.events)).items,
            "pattern",
            ArticleLoop(site, needs_js, Prefix(urls, config.max_articles), 0,
                        Scraping(<<>>, {}, clicked.events)).events,
            Locals(StrategyOf(site), urls, clicked.items))

\* scrape from the click discovery on, urls being the list find_article_links
\* returned and clicked what click discovery gave, no items when it was not tried
ScrapeLinks(site, config, needs_js, urls, clicked) ==
    IF clicked.items # <<>>
    THEN Returns(clicked.items, "click", clicked.events,
                 Locals(StrategyOf(site), urls, clicked.items))
    ELSE Returns(ArticleLoop(site, needs_js, Prefix(urls, config.max_articles), 0,
                             Scraping(<<>>, {}, clicked.events)).items,
                 "pattern",
                 ArticleLoop(site, needs_js, Prefix(urls, config.max_articles), 0,
                             Scraping(<<>>, {}, clicked.events)).events,
                 Locals(StrategyOf(site), urls, clicked.items))

\* scrape, found being the links find_article_links finds in ListingSoup(site)
\* and order the order list(links) puts them in
scrape(site, config, found, order) ==
    IF ~site.home.ok
    THEN Returns(<<>>, "unreachable", ListingCalls(site), Locals("none", <<>>, <<>>))
    ELSE IF ~ListingSoup(site).ok
    THEN Returns(Placeholders(_fetch_with_requests_fallback(site)), "placeholder",
                 ListingCalls(site), Locals(StrategyOf(site), <<>>, <<>>))
    ELSE ScrapeLinks(site, config, NeedsJs(site), ListOf(found, order),
                     IF NeedsJs(site) /\ _should_use_click_discovery(site.base_url)
                     THEN _scrape_with_click_discovery(site, config, ListingCalls(site))
                     ELSE Discovering(<<>>, ListingCalls(site)))

(***************************************************************************)
(* The metadata of an article: extract_title, extract_author and           *)
(* detect_content_type.  Elements with further attributes (rel, property,  *)
(* name, content) carry them in attrs.                                     *)
(***************************************************************************)
\* soup.find(attrs={name: value}), a value of several words matching by
\* any of them
FindAttr(dom, name, value) ==
    FirstOf(SelectSeq([n \in 1..Len(dom) |-> n],
                      LAMBDA n : \/ Attr(dom[n], name) = value
                                 \/ value \in Range(Words(Attr(dom[n], name)))))

\* soup.find(tag)
FindTag(dom, tag) == FirstOf(FindAllTag(dom, Document, tag))

\* soup.select_one of a group of selectors: the first element of the
\* document that one of them selects
SelectOne(dom, sels) ==
    FirstOf(Sorted(UNION { Range(Select(dom, Document, sel)) : sel \in sels }))

\* main X, article X, [role="main"] X
InContentArea(subject) ==
    { Selector(TagSel("main"), subject), Selector(TagSel("article"), subject),
      Selector(RoleSel(<<"m","a","i","n">>), subject) }

generic_titles ==
    { <<"b","l","o","g">>,
 <<"h","o","m","e">>,
 <<"i","n","d","e","x">>,
 <<"m","a","i","n">>,
 <<"p","a","g","e">>,
 <<"a","r","t","i","c","l","e">>,
 <<"p","o","s","t">>,
 <<"n","e","w","s">>,
 <<"u","p","d","a","t","e","s">>,
 <<"c","o","n","t","e","n","t">>,
 <<"s","i","t","e">>,
 <<"w","e","b","s","i","t","e">> }

_is_generic_title(title) == Strip(Lower(title)) \in generic_titles

\* a heading of _find_main_heading: [score, element]
Scored(dom, level, element) ==
    [score |-> (4 - level) * 10 + Min(Len(get_text(dom, element)), 100), element |-> element]

\* the headings h1, h2, h3 of more than 10 characters, tag after tag
headings(dom) ==
    Concat([level \in 1..3 |->
              LET found == SelectSeq(FindAllTag(dom, Document, HeadingTags[level]),
                                     LAMBDA n : Len(get_text(dom, n)) > 10)
              IN  [k \in 1..Len(found) |-> Scored(dom, level, found[k])]])

\* max(headings, key=score): the first of the highest score
FirstHighest(scored) ==
    scored[SetMin({ k \in 1..Len(scored) :
                      \A j \in 1..Len(scored) : scored[j].score <= scored[k].score })].element

_find_main_heading(dom) ==
    IF headings(dom) = <<>> THEN None ELSE FirstHighest(headings(dom))

TitleClasses == { <<"t","i","t","l","e">>,
 <<"p","o","s","t","-","t","i","t","l","e">>,
 <<"e","n","t","r","y","-","t","i","t","l","e">> }

\* the element each strategy of extract_title gives, None when it gives none
title_strategies(dom) ==
    << SelectOne(dom, InContentArea(TagSel("h1"))),
       SelectOne(dom, InContentArea(TagSel("h2"))),
       _find_main_heading(dom),
       SelectOne(dom, { Selector(TagSel("main"), ClassSubSel("", <<"t","i","t","l","e">>)),
                        Selector(TagSel("article"), ClassSubSel("", <<"t","i","t","l","e">>)) }),
       FindTag(dom, "h1"),
       FindTag(dom, "h2"),
       SelectOne(dom, { Selector(NoSel, ClassSel(c)) : c \in TitleClasses }),
       FindAttr(dom, "property", <<"o","g",":","t","i","t","l","e">>),
       FindTag(dom, "title") >>

\* element.get_text(strip=True) or element.get('content', '')
TextOrContent(dom, element) ==
    IF get_text(dom, element) # <<>> THEN get_text(dom, element)
    ELSE Attr(dom[element], "content")

Untitled == <<"U","n","t","i","t","l","e","d">>

RECURSIVE TitleFrom(_, _, _)
\* the loop over the strategies, from strategy k on
TitleFrom(dom, found, k) ==
    IF k > Len(found) THEN Untitled
    ELSE IF found[k] = None THEN TitleFrom(dom, found, k + 1)
    ELSE IF Len(TextOrContent(dom, found[k])) > 3
            /\ ~_is_generic_title(TextOrContent(dom, found[k]))
    THEN TextOrContent(dom, found[k])
    ELSE TitleFrom(dom, found, k + 1)

extract_title(dom) == TitleFrom(dom, title_strategies(dom), 1)

AuthorClasses == { <<"a","u","t","h","o","r">>,
 <<"b","y","l","i","n","e">>,
 <<"b","y">> }

TitleWords == { <<"c","o","-","f","o","u","n","d","e","r">>,
 <<"a","u","t","h","o","r">>,
 <<"w","r","i","t","e","r">>,
 <<"e","d","i","t","o","r">>,
 <<"c","e","o">>,
 <<"c","t","o">> }

\* \w+\s+\w+\s* sep \s*(Co-Founder|Author|Writer|Editor ...), re.I
NameThenTitle(sep, titles) ==
    { <<ClassItem("word", 1, Unbounded), ClassItem("space", 1, Unbounded),
        ClassItem("word", 1, Unbounded), ClassItem("space", 0, Unbounded),
        LitItem(sep), ClassItem("space", 0, Unbounded)>> \o Lit(t) : t \in titles }

\* By\s+\w+\s+\w+, re.I
ByName ==
    { Lit(<<"b","y">>) \o <<ClassItem("space", 1, Unbounded), ClassItem("word", 1, Unbounded),
                       ClassItem("space", 1, Unbounded), ClassItem("word", 1, Unbounded)>> }

\* the patterns of the three text strategies
text_patterns ==
    << NameThenTitle(MiddleDot, TitleWords), ByName,
       NameThenTitle("-", TitleWords \ { <<"c","e","o">>, <<"c","t","o">> }) >>

\* every literal character of a pattern is in the text, as it is in every
\* text the pattern matches a part of
LiteralsIn(pat, text) ==
    \A k \in 1..Len(pat) : pat[k].k = "l" => pat[k].ch \in Range(Lower(text))

\* re.search of an alternation of patterns, the patterns that cannot match
\* left out
SearchIn(pats, text) == \E pat \in pats : LiteralsIn(pat, text) /\ Search(pat, text)

\* soup.find(string=pattern): the element whose string is the first of the
\* document the pattern finds a match in
FindString(dom, pats) ==
    FirstOf(SelectSeq([n \in 1..Len(dom) |-> n], LAMBDA n : SearchIn(pats, dom[n].text)))

\* what a strategy of extract_author found: an element, a string, nothing
Result(kind, node) == [kind |-> kind, node |-> node]

ElementOrNone(node) == IF node = None THEN Result("none", None) ELSE Result("element", node)

StringOrNone(node) == IF node = None THEN Result("none", None) ELSE Result("string", node)

author_strategies(dom) ==
    << ElementOrNone(SelectOne(dom, { Selector(NoSel, ClassSel(c)) : c \in AuthorClasses })),
       ElementOrNone(FindAttr(dom, "rel", <<"a","u","t","h","o","r">>)),
       ElementOrNone(FindAttr(dom, "property", <<"a","r","t","i","c","l","e",":","a","u","t","h","o","r">>)),
       ElementOrNone(FindAttr(dom, "name", <<"a","u","t","h","o","r">>)),
       StringOrNone(FindString(dom, text_patterns[1])),
       StringOrNone(FindString(dom, text_patterns[2])),
       StringOrNone(FindString(dom, text_patterns[3])) >>

\* the words of the test of the dash, compared with their case
CasedTitles == { <<"C","o","-","F","o","u","n","d","e","r">>,
 <<"A","u","t","h","o","r">>,
 <<"W","r","i","t","e","r">>,
 <<"E","d","i","t","o","r">>,
 <<"C","E","O">>,
 <<"C","T","O">> }

\* text.split(sep)[0]
BeforeFirst(text, sep) ==
    IF sep \in Range(text)
    THEN SubSeq(text, 1, SetMin({ i \in 1..Len(text) : text[i] = sep }) - 1)
    ELSE text

\* the name part of a string: what is before the separator
NamePart(author) ==
    IF MiddleDot \in Range(author) THEN Strip(BeforeFirst(author, MiddleDot))
    ELSE IF "-" \in Range(author) /\ ContainsAny(author, CasedTitles)
    THEN Strip(BeforeFirst(author, "-"))
    ELSE author

WithoutBy(author) ==
    IF StartsWith(Lower(author), <<"b","y"," ">>) THEN Strip(SubSeq(author, 4, Len(author)))
    ELSE author

\* the else branch: a text node cleaned
CleanedString(text) == WithoutBy(NamePart(Strip(text)))

author_skips == { <<"@">>,
 <<"h","t","t","p">>,
 <<"w","w","w">>,
 <<"b","l","o","g">>,
 <<"p","o","s","t">> }

\* the test every author passes before it is returned
AuthorAccepted(author) ==
    author # <<>> /\ Len(author) > 2 /\ ~ContainsAny(Lower(author), author_skips)

\* the author a result gives; string_get_text is hasattr(result, 'get_text')
\* of a string, which is as the installed bs4 has it
AuthorOf(dom, result, string_get_text) ==
    IF result.kind = "element" THEN TextOrContent(dom, result.node)
    ELSE IF string_get_text THEN Strip(dom[result.node].text)
    ELSE CleanedString(dom[result.node].text)

RECURSIVE AuthorFrom(_, _, _, _)
\* the loop over the strategies, from strategy k on
AuthorFrom(dom, found, string_get_text, k) ==
    IF k > Len(found) THEN <<>>
    ELSE IF found[k].kind = "none" THEN AuthorFrom(dom, found, string_get_text, k + 1)
    ELSE IF AuthorAccepted(AuthorOf(dom, found[k], string_get_text))
    THEN AuthorOf(dom, found[k], string_get_text)
    ELSE AuthorFrom(dom, found, string_get_text, k + 1)

extract_author(dom, string_get_text) ==
    AuthorFrom(dom, author_strategies(dom), string_get_text, 1)

podcast_indicators == { <<"p","o","d","c","a","s","t">>,
 <<"t","r","a","n","s","c","r","i","p","t">>,
 <<"a","u","d","i","o">>,
 <<"e","p","i","s","o","d","e">>,
 <<"i","n","t","e","r","v","i","e","w">> }

podcast_content == { <<"t","r","a","n","s","c","r","i","p","t",":">>,
 <<"s","p","e","a","k","e","r",":">>,
 <<"h","o","s","t",":">>,
 <<"[","m","u","s","i","c","]">>,
 <<"[","a","p","p","l","a","u","s","e","]">> }

call_indicators == { <<"c","a","l","l"," ","t","r","a","n","s","c","r","i","p","t">>,
 <<"m","e","e","t","i","n","g"," ","t","r","a","n","s","c","r","i","p","t">>,
 <<"c","a","l","l"," ","n","o","t","e","s">>,
 <<"m","e","e","t","i","n","g"," ","n","o","t","e","s">> }

call_content == { <<"a","t","t","e","n","d","e","e","s",":">>,
 <<"p","a","r","t","i","c","i","p","a","n","t","s",":">>,
 <<"m","e","e","t","i","n","g"," ","s","t","a","r","t","e","d">>,
 <<"c","a","l","l"," ","e","n","d","e","d">> }

talk_indicators == { <<"p","o","d","c","a","s","t">>,
 <<"i","n","t","e","r","v","i","e","w">>,
 <<"t","a","l","k">>,
 <<"d","i","s","c","u","s","s","i","o","n">> }

\* the type of the content of a URL that is not of LinkedIn or Reddit
TypeByIndicators(url_lower, title_lower, content_lower) ==
    IF ContainsAny(url_lower, podcast_indicators) THEN "podcast_transcript"
    ELSE IF ContainsAny(title_lower, podcast_indicators) THEN "podcast_transcript"
    ELSE IF ContainsAny(content_lower, podcast_content) THEN "podcast_transcript"
    ELSE IF ContainsAny(title_lower, call_indicators) THEN "call_transcript"
    ELSE IF ContainsAny(content_lower, call_content) THEN "call_transcript"
    ELSE IF Contains(url_lower, <<"y","o","u","t","u","b","e",".","c","o","m">>) \/ Contains(url_lower, <<"y","o","u","t","u",".","b","e">>)
    THEN IF ContainsAny(title_lower, talk_indicators) THEN "podcast_transcript" ELSE "blog"
    ELSE "blog"

TypeOfLowered(url_lower, title_lower, content_lower) ==
    IF Contains(url_lower, <<"l","i","n","k","e","d","i","n",".","c","o","m">>)
    THEN IF Contains(url_lower, <<"/","p","o","s","t","s","/">>) \/ Contains(url_lower, <<"/","f","e","e","d","/","u","p","d","a","t","e","/">>)
         THEN "linkedin_post"
         ELSE IF Contains(url_lower, <<"/","p","u","l","s","e","/">>) THEN "blog" ELSE "linkedin_post"
    ELSE IF Contains(url_lower, <<"r","e","d","d","i","t",".","c","o","m">>) THEN "reddit_comment"
    ELSE TypeByIndicators(url_lower, title_lower, content_lower)

detect_content_type(u, title, content) ==
    TypeOfLowered(Lower(u), Lower(title), Prefix(Lower(content), 500))

(***************************************************************************)
(* The ContentItem of an article with its metadata, as the loop over the   *)
(* discovered URLs of _scrape_with_click_discovery builds it and as        *)
(* _scrape_article does, from the same URL and page.                       *)
(***************************************************************************)
\* ContentItem(title, content, content_type, source_url, author, user_id="")
Described(item, title, content_type, author) ==
    item @@ [title |-> title, content_type |-> content_type, author |-> author,
             user_id |-> <<>>]

\* what a builder gives: the item, or none
BuiltItem(has_item, item) == [has_item |-> has_item, item |-> item]

NoItem == BuiltItem(FALSE, ContentItem(<<>>, <<>>))

\* extract_title(soup) or article_info['title']
TitleOr(title, fallback) == IF title # <<>> THEN title ELSE fallback

\* the body of the loop over discovered_urls after driver.get(url)
DiscoveredItem(article_info, dom, content, string_get_text) ==
    IF content # <<>> /\ Len(Strip(content)) >= 100
    THEN BuiltItem(TRUE, Described(ContentItem(content, article_info.url),
                                   TitleOr(extract_title(dom), article_info.title),
                                   "blog", extract_author(dom, string_get_text)))
    ELSE NoItem

\* _scrape_article after the fetch gave the page
ArticleItem(u, dom, content, string_get_text) ==
    IF content = <<>> \/ Len(Strip(content)) < 100 THEN NoItem
    ELSE BuiltItem(TRUE, Described(ContentItem(content, u), extract_title(dom),
                                   detect_content_type(u, extract_title(dom), content),
                                   extract_author(dom, string_get_text)))

PodcastTarget == <<"h","t","t","p","s",":","/","/","e","x","a","m","p","l","e",".","c","o","m","/","b","l","o","g","/","p","o","d","c","a","s","t","-","e","p","i","s","o","d","e">>

JaneDoe == <<"J","a","n","e"," ","D","o","e">>

\* <article><h2>An interview with the founder</h2><p>120 characters</p></article>
InterviewArticle ==
    << Plain("article", <<>>, Document), Plain("h2", <<"A","n"," ","i","n","t","e","r","v","i","e","w"," ","w","i","t","h"," ","t","h","e"," ","f","o","u","n","d","e","r">>, 1),
       Plain("p", Prose(120), 1) >>

ArticleBodies == { LongArticle, ShortArticle, InterviewArticle }

\* what a page says of its author: nothing, <span class="author">By Jane
\* Doe</span>, <a rel="author">jane@example.com</a>, <meta name="author"
\* content="Jane Doe">, and the paragraphs of the text strategies
Bylines ==
    { <<>>,
      << Node("span", << <<"a","u","t","h","o","r">> >>, FALSE, <<>>, FALSE, <<>>, <<"B","y"," ","J","a","n","e"," ","D","o","e">>, Document) >>,
      << WithAttrs(Plain("a", <<"j","a","n","e","@","e","x","a","m","p","l","e",".","c","o","m">>, Document), [rel |-> <<"a","u","t","h","o","r">>]) >>,
      << WithAttrs(Plain("meta", <<>>, Document), [name |-> <<"a","u","t","h","o","r">>, content |-> JaneDoe]) >>,
      << Plain("p", JaneDoe \o <<" ", MiddleDot, " ">> \o <<"E","d","i","t","o","r">>, Document) >>,
      << Plain("p", <<"B","y"," ","J","a","n","e"," ","D","o","e">>, Document) >>,
      << Plain("p", <<"J","a","n","e"," ","D","o","e"," ","-"," ","W","r","i","t","e","r">>, Document) >>,
      << Plain("p", <<"b","y"," "," ">> \o <<"B","y"," ","J","a","n","e"," ","D","o","e">>, Document) >> }

\* the article pages: a body and what follows it
DescribedPages == { body \o Placed(byline, Len(body)) : body \in ArticleBodies, byline \in Bylines }

\* the URLs of the articles
DiscoveredUrls == { ArticleUrl, PodcastTarget }

NotBuilt == [called |-> FALSE, result |-> NoItem]

NoneBuilt == [click |-> NotBuilt, article |-> NotBuilt]

\* one pass of the loop over discovered_urls, the browser showing
\* rendered_soup at the URL
ScrapeDiscoveredArticle ==
    /\ ~built.click.called
    /\ \E content \in { extract_main_content(rendered_soup).content } :
          built' = [built EXCEPT !.click =
                       [called |-> TRUE,
                        result |-> DiscoveredItem(discovered, rendered_soup, content,
                                                  strings_get_text)]]
    /\ UNCHANGED <<discovered, rendered_soup, strings_get_text>>
    /\ UNCHANGED <<UrlVars, ArchVars, ChunkVars, LinkVars, ContentVars, RunVars, JobVars>>

\* _scrape_article(url, use_js), the fetch giving rendered_soup
ScrapeFetchedArticle ==
    /\ ~built.article.called
    /\ \E content \in { extract_main_content(rendered_soup).content } :
          built' = [built EXCEPT !.article =
                       [called |-> TRUE,
                        result |-> ArticleItem(discovered.url, rendered_soup, content,
                                               strings_get_text)]]
    /\ UNCHANGED <<discovered, rendered_soup, strings_get_text>>
    /\ UNCHANGED <<UrlVars, ArchVars, ChunkVars, LinkVars, ContentVars, RunVars, JobVars>>

(***************************************************************************)
(* UniversalKnowledgebaseScraper._process_pdf_source.  A PDF source is     *)
(* [pdf_path, exists, text, cfg]: whether the file exists, the text        *)
(* extract_text_from_pdf gets from it (<<>> when it gets none) and the     *)
(* chunk_size and chunk_overlap of the config.                             *)
(***************************************************************************)
PdfSource(pdf_path, exists, text, cfg) ==
    [pdf_path |-> pdf_path, exists |-> exists, text |-> text, cfg |-> cfg]

FileScheme == <<"f","i","l","e",":","/","/">>

\* processor.process_pdf_file(pdf_path, title, author): the outcome of
\* chunk_text, no chunk when no text is extracted
process_pdf_file(pdf) ==
    IF pdf.text = <<>> THEN Outcome("returned", <<>>) ELSE chunk_text(pdf.text, pdf.cfg)

\* Convert chunks to ContentItem objects
ChunkItems(chunks, pdf_path) ==
    [k \in 1..Len(chunks) |-> ContentItem(chunks[k].content, FileScheme \o pdf_path)]

\* what a source gave: how the call ended, the return taken, the items it
\* appends to self.items
Added(status, path, added) == [status |-> status, path |-> path, added |-> added]

PdfAdded(out, pdf_path) ==
    IF out.status = "returned" THEN Added("returned", "pdf", ChunkItems(out.chunks, pdf_path))
    ELSE Added(out.status, "pdf", <<>>)

\* _process_pdf_source without the test of PDF_SUPPORT: extract_text_from_pdf
\* raises ImportError
ProcessPdfSourceUnguarded(support, pdf) ==
    IF ~support THEN Added("raised", "no_pdf_support", <<>>)
    ELSE IF ~pdf.exists THEN Added("returned", "no_file", <<>>)
    ELSE PdfAdded(process_pdf_file(pdf), pdf.pdf_path)

_process_pdf_source(support, pdf) ==
    IF ~support THEN Added("returned", "no_pdf_support", <<>>)
    ELSE IF ~pdf.exists THEN Added("returned", "no_file", <<>>)
    ELSE PdfAdded(process_pdf_file(pdf), pdf.pdf_path)

(***************************************************************************)
(* The sources of a run.  Pages: a static listing, the listing of a        *)
(* JavaScript application (a shell element with class app) that has its    *)
(* links in the plain page too, and a listing of clickable containers      *)
(* with h1 titles.                                                         *)
(***************************************************************************)
MaxSources == 2

UrlPlain == <<"h","t","t","p","s",":","/","/","e","x","a","m","p","l","e",".","c","o","m">>

UrlSubstack == <<"h","t","t","p","s",":","/","/","e","x","a","m","p","l","e",".","s","u","b","s","t","a","c","k",".","c","o","m">>

\* <div class="app"></div>
AppShell == << Classed("div", <<"a","p","p">>, Document) >>

FirstTitle == <<"C","l","i","c","k","a","b","l","e"," ","P","o","s","t"," ","T","i","t","l","e">>

SecondTitle == <<"S","e","c","o","n","d"," ","C","l","i","c","k","a","b","l","e"," ","S","t","o","r","y">>

\* <div style="cursor:pointer"><h1>title</h1></div>
ClickablePost(title) ==
    << Node("div", <<>>, FALSE, <<>>, FALSE, PointerStyle, <<>>, Document),
       Plain("h1", title, 1) >>

StaticListing == CardWithLink \o Placed(RelativeLink, Len(CardWithLink))

ShellListing == AppShell \o Placed(StaticListing, Len(AppShell))

ClickListing ==
    AppShell \o Placed(ClickablePost(FirstTitle), 1) \o Placed(ClickablePost(SecondTitle), 3)

\* the URLs of the articles of the listings
PostUrls == { urljoin(UrlPlain, PostHref), urljoin(UrlPlain, <<"b","l","o","g","/","o","t","h","e","r","-","p","o","s","t">>) }

FirstTarget == <<"h","t","t","p","s",":","/","/","e","x","a","m","p","l","e",".","s","u","b","s","t","a","c","k",".","c","o","m","/","p","/","c","l","i","c","k","a","b","l","e","-","p","o","s","t">>

SecondTarget == <<"h","t","t","p","s",":","/","/","e","x","a","m","p","l","e",".","s","u","b","s","t","a","c","k",".","c","o","m","/","p","/","s","e","c","o","n","d","-","s","t","o","r","y">>

\* what a site serves at the given URLs: a long article, a short one, or
\* nothing for the URLs left out
Served == { Soup(LongArticle), Soup(ShortArticle) }

ArticleMaps(urls) == UNION { [served -> Served] : served \in SUBSET urls }

\* where the clicks lead: to an article each, to the same article, nowhere
Navigations ==
    UNION { [clicked -> {FirstTarget, SecondTarget}] : clicked \in SUBSET {FirstTitle, SecondTitle} }

NoArticles == [u \in {} |-> NoSoup]

Unreachable == Site(UrlPlain, NoSoup, FALSE, NoSoup, NoSoup, NoSoup, NoArticles, NoArticles)

StaticSites ==
    { Site(UrlPlain, Soup(StaticListing), FALSE, NoSoup, NoSoup, NoSoup, articles, NoArticles) :
         articles \in ArticleMaps(PostUrls) }

\* the pages a backend gives for a listing: the listing, or None
Maybe(dom) == { NoSoup, Soup(dom) }

ShellSites ==
    { Site(UrlPlain, Soup(ShellListing), driver, Soup(ShellListing), playwright, fallback,
           articles, NoArticles) :
         driver \in BOOLEAN, playwright \in Maybe(ShellListing), fallback \in Maybe(ShellListing),
         articles \in { [u \in PostUrls |-> Soup(LongArticle)], NoArticles } }

\* what the articles the clicks lead to are: long ones, or a short one first
TargetArticles ==
    { [u \in {FirstTarget, SecondTarget} |-> Soup(LongArticle)],
      [u \in {FirstTarget, SecondTarget} |->
          IF u = FirstTarget THEN Soup(ShortArticle) ELSE Soup(LongArticle)] }

\* a platform of the click discovery list, with a WebDriver
ClickSites ==
    { Site(UrlSubstack, Soup(AppShell), TRUE, Soup(ClickListing), NoSoup, NoSoup,
           articles, navigation) :
         articles \in TargetArticles, navigation \in Navigations }

\* and without one
DriverlessSites ==
    { Site(UrlSubstack, Soup(AppShell), FALSE, NoSoup, playwright, NoSoup,
           [u \in {FirstTarget, SecondTarget} |-> Soup(LongArticle)], NoArticles) :
         playwright \in Maybe(ClickListing) }

\* the URL find_article_links makes of the first title
GuessedTarget == <<"h","t","t","p","s",":","/","/","e","x","a","m","p","l","e",".","s","u","b","s","t","a","c","k",".","c","o","m","/","b","l","o","g","/","c","l","i","c","k","a","b","l","e","-","p","o","s","t","-","t","i","t","l","e">>

\* a platform whose article is at the URL made of its title, the article
\* being a short one
GuessedSites ==
    { Site(UrlSubstack, Soup(AppShell), TRUE, Soup(ClickListing), NoSoup, NoSoup,
           [u \in {GuessedTarget} |-> Soup(ShortArticle)],
           [title \in {FirstTitle} |-> GuessedTarget]) }

\* a WebDriver that starts and gives no page for the listing, Playwright
\* giving it
StalledSites ==
    { Site(UrlPlain, Soup(ShellListing), TRUE, NoSoup, Soup(ShellListing), NoSoup,
           [u \in PostUrls |-> Soup(LongArticle)], NoArticles) }

\* <script>React.render</script> before the static listing
FrameworkListing ==
    << Plain("script", <<"R","e","a","c","t",".","r","e","n","d","e","r">>, Document) >> \o Placed(StaticListing, 1)

\* pages built with a framework, on a platform of the click discovery list
\* and elsewhere
FrameworkSites ==
    { Site(UrlSubstack, Soup(FrameworkListing), TRUE, Soup(ClickListing), NoSoup, NoSoup,
           [u \in {FirstTarget, SecondTarget} |-> Soup(LongArticle)], navigation) :
         navigation \in { NoArticles, [title \in {FirstTitle} |-> FirstTarget] } }
    \cup { Site(UrlPlain, Soup(FrameworkListing), TRUE, Soup(StaticListing), NoSoup, NoSoup,
                [u \in PostUrls |-> Soup(LongArticle)], NoArticles) }

\* a listing of three clickable containers
ThirdTitle == <<"T","h","i","r","d"," ","C","l","i","c","k","a","b","l","e"," ","E","n","t","r","y">>

ThirdTarget == <<"h","t","t","p","s",":","/","/","e","x","a","m","p","l","e",".","s","u","b","s","t","a","c","k",".","c","o","m","/","p","/","t","h","i","r","d","-","e","n","t","r","y">>

TripleListing ==
    ClickListing \o Placed(ClickablePost(ThirdTitle), 5)

\* where the clicks of the three containers lead: the second to the article
\* of the first, or nowhere, or to an article of its own
TripleNavigations ==
    { [title \in {FirstTitle, SecondTitle, ThirdTitle} |->
          IF title = ThirdTitle THEN ThirdTarget ELSE FirstTarget],
      [title \in {FirstTitle, ThirdTitle} |->
          IF title = ThirdTitle THEN ThirdTarget ELSE FirstTarget],
      [title \in {FirstTitle, SecondTitle, ThirdTitle} |->
          IF title = ThirdTitle THEN ThirdTarget
          ELSE IF title = SecondTitle THEN SecondTarget ELSE FirstTarget] }

TripleSites ==
    { Site(UrlSubstack, Soup(AppShell), TRUE, Soup(TripleListing), NoSoup, NoSoup,
           [u \in {FirstTarget, SecondTarget, ThirdTarget} |-> Soup(LongArticle)], navigation) :
         navigation \in TripleNavigations }

Sites ==
    {Unreachable} \cup StaticSites \cup ShellSites \cup ClickSites \cup DriverlessSites
        \cup GuessedSites \cup StalledSites \cup FrameworkSites \cup TripleSites

Config(max_articles) == [max_articles |-> max_articles]

Configs == { Config(50), Config(1) }

\* the links find_article_links finds in a page for a base_url, none when
\* there is no page
LinksIn(page, base_url) ==
    IF page.ok THEN find_article_links(page.dom, base_url).items ELSE <<>>

\* the calls of scrape on the sites of a set that have the same listing page,
\* found being its links, and what each call returns
ScrapeCallsOn(sites, found) ==
    { [base_url |-> site.base_url, config |-> config,
       returned |-> scrape(site, config, found, order)] :
         site \in sites, config \in Configs, order \in Permutations(1..Len(found)) }

\* the sites with a base_url and a listing page
SitesWith(base_url, page) ==
    { site \in Sites : site.base_url = base_url /\ ListingSoup(site) = page }

ListingsAt(base_url, page) ==
    UNION { ScrapeCallsOn(SitesWith(base_url, page), found) :
               found \in { LinksIn(page, base_url) } }

\* the base_url and listing page of every site
ListingPages == { <<site.base_url, ListingSoup(site)>> : site \in Sites }

ScrapeCalls == UNION { ListingsAt(at[1], at[2]) : at \in ListingPages }

NoteText == <<"A"," ","s","h","o","r","t"," ","n","o","t","e",".">>

PdfPath == <<"u","p","l","o","a","d","s","/","m","a","n","u","a","l",".","p","d","f">>

PdfTexts == { <<>>, NoteText, Strip(PieceLong), PieceMarker \o PieceLong \o PieceMarker \o PieceLong }

PdfSources ==
    { PdfSource(PdfPath, exists, text, cfg) :
         exists \in BOOLEAN, text \in PdfTexts, cfg \in { Processor(1000, 200), Processor(110, 10) } }

\* the calls of _process_pdf_source and what each gives
PdfCalls ==
    { [support |-> support, pdf_path |-> pdf.pdf_path, given |-> _process_pdf_source(support, pdf)] :
         support \in BOOLEAN, pdf \in PdfSources }

\* a source processed: its kind, how add_source ended, the return taken and
\* the number of items added
Processed(kind, status, path, added) ==
    [kind |-> kind, status |-> status, path |-> path, added |-> Len(added)]

\* no scraper: before the first source, and after a PDF source
NoScraper ==
    [base_url |-> <<>>, config |-> Config(0),
     returned |-> Returns(<<>>, "none", <<>>, Locals("none", <<>>, <<>>))]

\* the scraper after scraper.close()
Closed(call) ==
    [base_url |-> call.base_url, config |-> call.config,
     returned |-> Returns(call.returned.items, call.returned.path,
                          close(call.returned.events), call.returned.locals)]

\* add_source(base_url, config) for a web source: self.items.extend(items),
\* then scraper.close()
AddWebSource ==
    /\ Len(sources) < MaxSources
    /\ \E call \in ScrapeCalls :
          /\ items' = items \o call.returned.items
          /\ sources' = Append(sources, Processed("web", "returned", call.returned.path,
                                               call.returned.items))
          /\ scraper' = Closed(call)
    /\ UNCHANGED pdf_support
    /\ UNCHANGED <<UrlVars, ArchVars, ChunkVars, LinkVars, ContentVars, ItemVars, JobVars>>

\* add_source(pdf_path, config) with source_type pdf; a call that raises
\* leaves self.items as it is, one that does not end is no step
AddPdfSource ==
    /\ Len(sources) < MaxSources
    /\ \E call \in PdfCalls :
          /\ call.support = pdf_support
          /\ call.given.status # "hang"
          /\ items' = items \o call.given.added
          /\ sources' = Append(sources, Processed("pdf", call.given.status, call.given.path,
                                               call.given.added))
          /\ scraper' = NoScraper
    /\ UNCHANGED pdf_support
    /\ UNCHANGED <<UrlVars, ArchVars, ChunkVars, LinkVars, ContentVars, ItemVars, JobVars>>

(***************************************************************************)
(* The web interface of app.py: ScrapingJobManager.start_job, the thread   *)
(* run_scraping_job of each job, the result files and get_job_results.     *)
(***************************************************************************)
MaxJobs == 2

\* the job ids create_job draws with uuid4
JobIds == 1..MaxJobs

\* the seconds the clock advances while the jobs run
MaxClock == 1

\* the requests for results answered in one behaviour
MaxRequests == 1

AcmeCo == <<"A","c","m","e"," ","C","o">>

AcmeDashCo == <<"A","c","m","e","-","C","o">>

Beta == <<"B","e","t","a">>

CustomerNames == { AcmeCo, AcmeDashCo, Beta }

\* str.replace(old, new) for one character
ReplaceChar(s, old, new) == [i \in 1..Len(s) |-> IF s[i] = old THEN new ELSE s[i]]

\* config['customer_name'].replace(' ', '_').replace('-', '_')
SafeCustomerName(customer_name) == ReplaceChar(ReplaceChar(customer_name, " ", "_"), "-", "_")

DecimalDigits == <<"0","1","2","3","4","5","6","7","8","9">>

TwoDigits(n) == <<DecimalDigits[(n \div 10) + 1], DecimalDigits[(n % 10) + 1]>>

\* datetime.now().strftime("%Y%m%d_%H%M%S") at t seconds after midnight of
\* the first of January 2024
Timestamp(t) ==
    <<"2","0","2","4","0","1","0","1","_">>
        \o TwoDigits(t \div 3600) \o TwoDigits((t \div 60) % 60) \o TwoDigits(t % 60)

\* f"{customer_name}_scrape_{timestamp}.json"
OutputPath(customer_name, t) ==
    SafeCustomerName(customer_name) \o <<"_","s","c","r","a","p","e","_">> \o Timestamp(t)
        \o <<".","j","s","o","n">>

\* one entry of config['sources']
JobSource(source_url, max_articles) == [url |-> source_url, max_articles |-> max_articles]

\* source_config: the entry without url and type
SourceConfig(source) == Config(source.max_articles)

JobSourceLists ==
    { <<JobSource(UrlPlain, 1)>>, <<JobSource(UrlSubstack, 1)>> }

\* the body of POST /api/jobs; named: whether it has the key customer_name
JobConfig(named, customer_name, job_sources) ==
    [named |-> named, customer_name |-> customer_name, sources |-> job_sources]

Nameless == JobConfig(FALSE, <<>>, <<JobSource(UrlPlain, 1)>>)

JobConfigs ==
    { JobConfig(TRUE, name, job_sources) : name \in CustomerNames, job_sources \in JobSourceLists }
        \cup { Nameless }

\* what scraper.add_source(url, source_config) can append to scraper.items
ScrapedBy(source) ==
    { call.returned.items :
         call \in { c \in ScrapeCalls : c.base_url = source.url /\ c.config = SourceConfig(source) } }

\* the loop over config['sources']: every scraper.items it can end with
RECURSIVE SourcesLoop(_, _, _)
SourcesLoop(job_sources, k, scraped) ==
    IF k > Len(job_sources) THEN { scraped }
    ELSE UNION { SourcesLoop(job_sources, k + 1, scraped \o added) : added \in ScrapedBy(job_sources[k]) }

\* ContentItem.to_dict
to_dict(item) == [content |-> item.content, source_url |-> item.source_url]

\* output_data of save
OutputData(team_id, scraped) ==
    [team_id |-> team_id, items |-> [k \in 1..Len(scraped) |-> to_dict(scraped[k])]]

NoData == OutputData(<<>>, <<>>)

\* a file: absent, empty after open(path, 'w'), holding one JSON document,
\* or holding the bytes of two documents
File(state, data) == [state |-> state, data |-> data]

Absent == File("absent", NoData)

Truncated == File("empty", NoData)

Holding(data) == File("document", data)

Garbled == File("garbled", NoData)

\* the paths a job can write
OutputPaths == { OutputPath(name, t) : name \in CustomerNames, t \in 0..MaxClock }

NoFiles == [path \in OutputPaths |-> Absent]

\* the thread of a job: where it is, its config, scraper.items, output_path
\* and total_items
Thread(pc, job_config, scraped, output_path, total_items) ==
    [pc |-> pc, config |-> job_config, items |-> scraped, output_path |-> output_path,
     total_items |-> total_items]

NotStarted == Thread("none", JobConfig(FALSE, <<>>, <<>>), <<>>, <<>>, 0)

NoThreads == [j \in JobIds |-> NotStarted]

At(thread, pc) == [thread EXCEPT !.pc = pc]

\* self.jobs: the ids stored
NoJobs == [j \in JobIds |-> FALSE]

\* an entry of job_results
JobResult(status, output_path, total_items) ==
    [status |-> status, output_path |-> output_path, total_items |-> total_items]

NoResult == JobResult("none", <<>>, 0)

NoResults == [j \in JobIds |-> NoResult]

\* config.get('team_id', config['customer_name']) of a config without team_id
TeamId(job_config) == job_config.customer_name

\* what a write of data at offset 0 leaves in a file another thread has
\* written since this thread opened it: the data alone when it is at least
\* as long as the bytes there, else the data followed by the rest of them;
\* the lengths depend on the titles and authors, which the items here omit
Overwritten(there, data) ==
    IF there.state = "empty" \/ there = Holding(data) THEN { Holding(data) }
    ELSE { Holding(data), Garbled }

\* json.load of a file opened for reading
Loaded(ok, data) == [ok |-> ok, data |-> data]

JsonLoad(file) == IF file.state = "document" THEN Loaded(TRUE, file.data) ELSE Loaded(FALSE, NoData)

\* a response of get_job_results
Response(job_id, code, data) == [job_id |-> job_id, code |-> code, data |-> data]

get_job_results(job_id, results, fs) ==
    IF results[job_id].status = "none" THEN Response(job_id, 404, NoData)
    ELSE IF results[job_id].status # "completed" THEN Response(job_id, 400, NoData)
    ELSE IF JsonLoad(fs[results[job_id].output_path]).ok
         THEN Response(job_id, 200, JsonLoad(fs[results[job_id].output_path]).data)
         ELSE Response(job_id, 500, NoData)

\* start_job: thread.start() and self.jobs[job_id] = {...}, which no thread
\* reads; the k-th job started has the id k
StartJob ==
    /\ \E j \in JobIds, job_config \in JobConfigs :
          /\ threads[j].pc = "none"
          /\ \A i \in 1..(j - 1) : threads[i].pc # "none"
          /\ threads' = [threads EXCEPT ![j] = Thread("sources", job_config, <<>>, <<>>, 0)]
          /\ jobs' = [jobs EXCEPT ![j] = TRUE]
    /\ UNCHANGED <<job_results, files, clock, responses>>
    /\ UNCHANGED <<UrlVars, ArchVars, ChunkVars, LinkVars, ContentVars, RunVars, ItemVars>>

\* run_scraping_job: the scraper and the loop over config['sources']; a
\* config without customer_name raises KeyError, which the outer except
\* records
ProcessSources ==
    /\ \E j \in JobIds :
          /\ threads[j].pc = "sources"
          /\ IF threads[j].config.named
             THEN /\ \E scraped \in SourcesLoop(threads[j].config.sources, 1, <<>>) :
                        threads' = [threads EXCEPT ![j] = At([@ EXCEPT !.items = scraped], "stamp")]
                  /\ UNCHANGED job_results
             ELSE /\ threads' = [threads EXCEPT ![j] = At(@, "done")]
                  /\ job_results' = [job_results EXCEPT ![j] = JobResult("error", <<>>, 0)]
    /\ UNCHANGED <<jobs, files, clock, responses>>
    /\ UNCHANGED <<UrlVars, ArchVars, ChunkVars, LinkVars, ContentVars, RunVars, ItemVars>>

\* run_scraping_job: timestamp, customer_name, output_path
NameOutput ==
    /\ \E j \in JobIds :
          /\ threads[j].pc = "stamp"
          /\ threads' = [threads EXCEPT ![j] =
                 At([@ EXCEPT !.output_path = OutputPath(threads[j].config.customer_name, clock)], "open")]
    /\ UNCHANGED <<jobs, job_results, files, clock, responses>>
    /\ UNCHANGED <<UrlVars, ArchVars, ChunkVars, LinkVars, ContentVars, RunVars, ItemVars>>

\* save: open(output_path, 'w') creates the file or empties it
OpenOutput ==
    /\ \E j \in JobIds :
          /\ threads[j].pc = "open"
          /\ files' = [files EXCEPT ![threads[j].output_path] = Truncated]
          /\ threads' = [threads EXCEPT ![j] = At(@, "dump")]
    /\ UNCHANGED <<jobs, job_results, clock, responses>>
    /\ UNCHANGED <<UrlVars, ArchVars, ChunkVars, LinkVars, ContentVars, RunVars, ItemVars>>

\* save: json.dump and the end of the with block, where the buffered text
\* is written at offset 0
DumpOutput ==
    /\ \E j \in JobIds :
          /\ threads[j].pc = "dump"
          /\ \E file \in Overwritten(files[threads[j].output_path],
                                     OutputData(TeamId(threads[j].config), threads[j].items)) :
                files' = [files EXCEPT ![threads[j].output_path] = file]
          /\ threads' = [threads EXCEPT ![j] = At(@, "read")]
    /\ UNCHANGED <<jobs, job_results, clock, responses>>
    /\ UNCHANGED <<UrlVars, ArchVars, ChunkVars, LinkVars, ContentVars, RunVars, ItemVars>>

\* run_scraping_job: the file read again for the count, 0 when it does not load
ReadBack ==
    /\ \E j \in JobIds :
          /\ threads[j].pc = "read"
          /\ \E loaded \in { JsonLoad(files[threads[j].output_path]) } :
                threads' = [threads EXCEPT ![j] =
                    At([@ EXCEPT !.total_items = IF loaded.ok THEN Len(loaded.data.items) ELSE 0],
                       "record")]
    /\ UNCHANGED <<jobs, job_results, files, clock, responses>>
    /\ UNCHANGED <<UrlVars, ArchVars, ChunkVars, LinkVars, ContentVars, RunVars, ItemVars>>

\* run_scraping_job: job_results[job_id] = {'status': 'completed', ...}
RecordResult ==
    /\ \E j \in JobIds :
          /\ threads[j].pc = "record"
          /\ job_results' = [job_results EXCEPT ![j] =
                 JobResult("completed", threads[j].output_path, threads[j].total_items)]
          /\ threads' = [threads EXCEPT ![j] = At(@, "done")]
    /\ UNCHANGED <<jobs, files, clock, responses>>
    /\ UNCHANGED <<UrlVars, ArchVars, ChunkVars, LinkVars, ContentVars, RunVars, ItemVars>>

\* GET /api/jobs/<job_id>/results
GetJobResults ==
    /\ Len(responses) < MaxRequests
    /\ \E j \in JobIds :
          responses' = Append(responses, get_job_results(j, job_results, files))
    /\ UNCHANGED <<jobs, job_results, files, threads, clock>>
    /\ UNCHANGED <<UrlVars, ArchVars, ChunkVars, LinkVars, ContentVars, RunVars, ItemVars>>

\* a second passes
Tick ==
    /\ clock < MaxClock
    /\ clock' = clock + 1
    /\ UNCHANGED <<jobs, job_results, files, threads, responses>>
    /\ UNCHANGED <<UrlVars, ArchVars, ChunkVars, LinkVars, ContentVars, RunVars, ItemVars>>

(***************************************************************************)
(* Claims about _is_likely_article_url, stated over occurrences (slices of *)
(* the URL) instead of the code's searches.                                *)
(***************************************************************************)
\* the slices of u of length n
Slices(u, n) == { SubSeq(u, i, i + n - 1) : i \in 1..(Len(u) - n + 1) }

AllSlices(u) == UNION { Slices(u, n) : n \in 1..Len(u) }

IsYearPath(w) ==
    /\ Len(w) = 6 /\ w[1] = "/" /\ w[2] = "2" /\ w[3] = "0"
    /\ IsDigit(w[4]) /\ IsDigit(w[5]) /\ w[6] = "/"

\* word-word-word, the words made of lowercase letters
IsThreeWordSlug(w) ==
    /\ Len(w) >= 5
    /\ Cardinality({ i \in 1..Len(w) : w[i] = "-" }) = 2
    /\ \A i \in 1..Len(w) : IsLower(w[i]) \/ w[i] = "-"
    /\ w[1] # "-" /\ w[Len(w)] # "-"
    /\ \A i \in 1..(Len(w) - 1) : ~(w[i] = "-" /\ w[i + 1] = "-")

IsNumericPathId(w) ==
    /\ Len(w) >= 3 /\ w[1] = "/" /\ w[Len(w)] = "/"
    /\ \A i \in 2..(Len(w) - 1) : IsDigit(w[i])

IsSubstackId(w) ==
    /\ Len(w) = 4 /\ w[1] = "/" /\ w[2] = "p" /\ w[3] = "-" /\ IsDigit(w[4])

PositiveIndicator(u) ==
    \/ AllSlices(Lower(u)) \cap article_indicators # {}
    \/ \E w \in AllSlices(u) :
          IsYearPath(w) \/ IsThreeWordSlug(w) \/ IsNumericPathId(w) \/ IsSubstackId(w)

NegativeIndicator(u) == AllSlices(Lower(u)) \cap avoid_patterns # {}

\* C5: the verdict is true if and only if the URL contains at least one
\* positive indicator and no negative indicator; a negative indicator
\* overrides every positive one.
C5_TrueIffPositiveAndNoNegative ==
    verdict.called =>
        (verdict.value <=> (PositiveIndicator(url) /\ ~NegativeIndicator(url)))

\* C5 witness: a URL with a positive and a negative indicator was judged.
C5_Witness ==
    verdict.called /\ PositiveIndicator(url) /\ NegativeIndicator(url)

\* C6: for any scheme-and-host prefix P the verdict is true for
\* P/blog/my-post, false for P/login, true for P/2024/my-post and false for
\* P/tag/python.
C6_ExamplesForAnyPrefix ==
    verdict.called =>
        \A pre \in Prefixes :
            /\ url = pre \o SegBlog \o SegMyPost => verdict.value
            /\ url = pre \o SegLogin => ~verdict.value
            /\ url = pre \o SegYear \o SegMyPost => verdict.value
            /\ url = pre \o SegTag \o SegPython => ~verdict.value

(***************************************************************************)
(* Claims about detect_architecture                                        *)
(***************************************************************************)
\* an element with id root or app, or with a class in which app or root occurs
SpaMarkerPresent(page) ==
    \E i \in 1..Len(page) : \E j \in 1..Len(page[i].attrs) :
        LET name == page[i].attrs[j][1]
            value == page[i].attrs[j][2]
        IN  \/ name = AttrId /\ value \in { <<"r","o","o","t">>, <<"a","p","p">> }
            \/ name = AttrClass
                 /\ AllSlices(value) \cap { <<"r","o","o","t">>, <<"a","p","p">> } # {}

ScriptTextHas(page, word) ==
    \E i \in 1..Len(page) :
        page[i].tag = TagScript /\ word \in AllSlices(Lower(page[i].text))

AnyFrameworkFlag(a) ==
    a.frameworks.react \/ a.frameworks.vue \/ a.frameworks.angular \/ a.frameworks.next

\* C3: the strategy is javascript_heavy when the density is below 0.02 or an
\* SPA marker is present, otherwise framework_based when a framework flag is
\* set, otherwise static_html; needs_js is true exactly when the strategy is
\* not static_html; a page with "react" in its script text, density 0.5 and
\* no SPA marker is framework_based.
C3_DecisionRuleInOrder ==
    architecture.called =>
        /\ architecture.strategy =
              IF architecture.content_density.num * 50 < architecture.content_density.den
                    \/ SpaMarkerPresent(soup)
              THEN "javascript_heavy"
              ELSE IF AnyFrameworkFlag(architecture) THEN "framework_based"
              ELSE "static_html"
        /\ architecture.needs_js <=> architecture.strategy # "static_html"
        /\ ScriptTextHas(soup, <<"r","e","a","c","t">>) => architecture.frameworks.react
        /\ ( /\ ScriptTextHas(soup, <<"r","e","a","c","t">>)
             /\ architecture.content_density.num * 2 = architecture.content_density.den
             /\ ~SpaMarkerPresent(soup) )
           => architecture.strategy = "framework_based"

\* C3 witness: a page with "react" in its script text, density 0.5 and no SPA
\* marker was classified.
C3_Witness ==
    /\ architecture.called
    /\ ScriptTextHas(soup, <<"r","e","a","c","t">>)
    /\ architecture.content_density.num * 2 = architecture.content_density.den
    /\ ~SpaMarkerPresent(soup)

\* C4: for an empty DOM (no markup, no visible text, no scripts, no SPA
\* marker) detect_architecture returns static_html with needs_js false.
C4_EmptyDomIsStatic ==
    (architecture.called /\ Markup(soup) = <<>>) =>
        architecture.strategy = "static_html" /\ ~architecture.needs_js

(***************************************************************************)
(* Claims about chunk_text                                                 *)
(***************************************************************************)
Returned == chunked.called /\ chunked.status = "returned"

\* position p (1-based) of the normalized text lies in the slice of chunk c
InChunk(p, c) == c.lo < p /\ p <= c.hi

ChapterMode == _find_chapter_boundaries(chunked.text) # <<>>

\* C8: whenever chunk_text returns, every character of the whitespace-
\* normalized text that is not whitespace lies in the slice of at least one
\* returned chunk, so the chunks together cover the whole document.
C8_ChunksCoverDocument ==
    Returned =>
        \A p \in 1..Len(chunked.text) :
            chunked.text[p] \notin Whitespace =>
                \E k \in 1..Len(chunked.chunks) : InChunk(p, chunked.chunks[k])

\* C9: whenever chunk_text returns, every returned chunk carries a
\* total_chunks equal to the number of chunks returned.
C9_TotalChunksIsCount ==
    Returned =>
        \A k \in 1..Len(chunked.chunks) :
            chunked.chunks[k].total_chunks = Len(chunked.chunks)

\* a returned list of a chapter sub-split under a chunk_size of at least the
\* sentence window (two chunks of one chapter) next to a chapter kept whole
C9_Witness ==
    /\ Returned
    /\ processor.chunk_size >= SentenceWindow
    /\ Len(chunked.text) > processor.chunk_size
    /\ ChapterMode
    /\ \E j, k \in 1..Len(chunked.chunks) :
          /\ j # k
          /\ chunked.chunks[j].chunk_index = chunked.chunks[k].chunk_index
    /\ \E j \in 1..Len(chunked.chunks) :
          \A k \in 1..Len(chunked.chunks) :
              chunked.chunks[j].chunk_index = chunked.chunks[k].chunk_index => j = k

\* C10: whenever chunk_text returns, the chunk_index of the first chunk is
\* 0 and each later chunk has the chunk_index of the chunk before it or that
\* plus one, so the indexes never decrease and skip no integer.
C10_IndexesContiguous ==
    Returned =>
        /\ chunked.chunks # <<>>
        /\ chunked.chunks[1].chunk_index = 0
        /\ \A k \in 1..(Len(chunked.chunks) - 1) :
              \/ chunked.chunks[k + 1].chunk_index = chunked.chunks[k].chunk_index
              \/ chunked.chunks[k + 1].chunk_index = chunked.chunks[k].chunk_index + 1

\* a returned list in chapter mode in which a sub-split chapter (an index
\* repeated) is followed by a further chapter (an index one larger)
C10_Witness ==
    /\ Returned
    /\ ChapterMode
    /\ \E k \in 1..(Len(chunked.chunks) - 2) :
          /\ chunked.chunks[k + 1].chunk_index = chunked.chunks[k].chunk_index
          /\ chunked.chunks[k + 2].chunk_index = chunked.chunks[k].chunk_index + 1

\* the match starts of chapter pattern k in the cleaned text
MatchesOfPattern(k) == FindIter(chapter_patterns[k], chunked.text)

HasTwoMatches(k) == Len(MatchesOfPattern(k)) >= 2

\* the text from match i up to the next match, or to the end, stripped
ChapterSlice(m, i) ==
    Strip(PySlice(chunked.text, m[i],
                  IF i < Len(m) THEN m[i + 1] ELSE Len(chunked.text)))

NoChapterOverTwice(m) ==
    \A i \in 1..Len(m) : Len(ChapterSlice(m, i)) <= 2 * processor.chunk_size

\* exactly one chunk per chapter cut at the matches m, each counting Len(m)
OnePerChapter(m) ==
    /\ chunked.status = "returned"
    /\ Len(chunked.chunks) = Len(m)
    /\ \A i \in 1..Len(m) :
          /\ chunked.chunks[i].content = ChapterSlice(m, i)
          /\ chunked.chunks[i].total_chunks = Len(m)

\* pattern k is the first of the ordered list with at least 2 matches
FirstWithTwoMatches(k) ==
    HasTwoMatches(k) /\ \A j \in 1..(k - 1) : ~HasTwoMatches(j)

\* C11: for a cleaned text longer than chunk_size, the chapters are cut by
\* the first pattern of the ordered list with at least 2 matches: when none
\* of its k chapters is longer than twice chunk_size, exactly k chunks are
\* returned, chunk i holding chapter i, each with total_chunks = k; when no
\* pattern has 2 matches the outcome is that of size-based chunking.
C11_FirstPatternOrSizeBased ==
    (chunked.called /\ Len(chunked.text) > processor.chunk_size) =>
        IF \E k \in 1..Len(chapter_patterns) : HasTwoMatches(k)
        THEN \A k \in 1..Len(chapter_patterns) :
                (FirstWithTwoMatches(k) /\ NoChapterOverTwice(MatchesOfPattern(k)))
                    => OnePerChapter(MatchesOfPattern(k))
        ELSE Outcome(chunked.status, chunked.chunks)
                = _size_based_chunking(chunked.text, processor)

\* two Chapter N markers in a text longer than chunk_size, both chapters at
\* most twice chunk_size long, returned as 2 chunks
C11_Witness ==
    /\ Returned
    /\ Len(chunked.text) > processor.chunk_size
    /\ Len(MatchesOfPattern(1)) = 2
    /\ NoChapterOverTwice(MatchesOfPattern(1))
    /\ Len(chunked.chunks) = 2
    /\ chunked.chunks[2].total_chunks = 2

(***************************************************************************)
(* Claims about find_article_links                                         *)
(***************************************************************************)
\* how many times u occurs in a sequence
Occurrences(list, u) == Cardinality({ k \in 1..Len(list) : list[k] = u })

\* C7: the list find_article_links returns holds no URL twice, however many
\* times the passes added the URL, each href joined to the base URL first
C7_NoUrlTwice ==
    article_links.called =>
       \A j, k \in 1..Len(article_links.returned) :
          article_links.returned[j] = article_links.returned[k] => j = k

\* a returned list of two URLs, one of them added more than once
C7_Witness ==
    /\ article_links.called
    /\ Len(article_links.returned) = 2
    /\ \E k \in 1..2 : Occurrences(article_links.adds, article_links.returned[k]) >= 2

(***************************************************************************)
(* Claims about extract_main_content and _scrape_article                   *)
(***************************************************************************)
\* the quality gate: not empty once trimmed, at least 100 characters once
\* trimmed, and more than half of the characters left when the markup
\* characters are taken out
PassesGate(content) ==
    /\ Strip(content) # <<>>
    /\ Len(Strip(content)) >= 100
    /\ 2 * Len(text_content(content)) > Len(content)

\* C2: extract_main_content returns none or content that passes the quality
\* gate, whichever strategy gave it, and _scrape_article makes a ContentItem
\* of such content only
C2_GateEnforced ==
    article.called =>
       /\ \/ article.result.extracted.content = <<>>
          \/ PassesGate(article.result.extracted.content)
       /\ article.result.has_item =>
             /\ article.result.item.content = article.result.extracted.content
             /\ PassesGate(article.result.item.content)

\* an article whose body, as the first strategy extracts it, is 80
\* characters: extract_main_content returned none and there is no ContentItem
C2_Witness ==
    /\ article.called
    /\ fetched.ok
    /\ Len(article.result.extracted.tried) = Len(strategies)
    /\ Len(article.result.extracted.tried[1]) = 80
    /\ article.result.extracted.content = <<>>
    /\ ~article.result.has_item

(***************************************************************************)
(* Claims about the items a run collects                                   *)
(***************************************************************************)
\* C1: every ContentItem in the results collection of a run has content of
\* at least 100 characters, whichever path produced it: a pattern-discovered
\* article, a click-discovered article, a placeholder of the plain-HTTP
\* fallback, a PDF chunk
C1_EveryItemHasHundredChars ==
    \A k \in 1..Len(items) : Len(items[k].content) >= 100

(***************************************************************************)
(* Claims about one source: scraper is the UniversalScraper of the last    *)
(* add_source, after close()                                               *)
(***************************************************************************)
\* add_source was last called on a web source
WebSource == scraper.base_url # <<>>

EventsOfSource == scraper.returned.events

\* event k is a call of progress_callback
IsProgress(k) == EventsOfSource[k].kind = "progress"

\* event k asks a backend for a page other than the listing page
IsArticleFetch(k) ==
    EventsOfSource[k].kind = "fetch" /\ EventsOfSource[k].url # scraper.base_url

\* C12: in the processing of one source progress_callback is called exactly
\* once for every item: no URL is the argument of two calls, every fetch of
\* an article page comes right after the call for its URL, and every item
\* the source returns, placeholders included, had a call for its source_url.
C12_ProgressOncePerItem ==
    WebSource =>
        /\ \A j, k \in 1..Len(EventsOfSource) :
              (IsProgress(j) /\ IsProgress(k)
                  /\ EventsOfSource[j].url = EventsOfSource[k].url) => j = k
        /\ \A k \in 1..Len(EventsOfSource) :
              IsArticleFetch(k) =>
                  /\ k > 1
                  /\ IsProgress(k - 1)
                  /\ EventsOfSource[k - 1].url = EventsOfSource[k].url
        /\ \A i \in 1..Len(scraper.returned.items) :
              \E k \in 1..Len(EventsOfSource) :
                  IsProgress(k) /\ EventsOfSource[k].url = scraper.returned.items[i].source_url

\* the positions of the calls of progress_callback, in order
ProgressCalls == SelectSeq([k \in 1..Len(EventsOfSource) |-> k], IsProgress)

\* C13: the calls progress_callback(current, total, url) of one source are
\* monotonic: from one call to the next current strictly increases and
\* total stays the same, and current never exceeds total.
C13_ProgressMonotonic ==
    WebSource =>
        /\ \A n \in 1..Len(ProgressCalls) :
              EventsOfSource[ProgressCalls[n]].current <= EventsOfSource[ProgressCalls[n]].total
        /\ \A n \in 1..(Len(ProgressCalls) - 1) :
              /\ EventsOfSource[ProgressCalls[n]].current
                    < EventsOfSource[ProgressCalls[n + 1]].current
              /\ EventsOfSource[ProgressCalls[n]].total
                    = EventsOfSource[ProgressCalls[n + 1]].total

\* the browser resources: the Selenium driver and what Playwright starts
BrowserResources == {"driver", "playwright", "browser", "page"}

\* the browsers: the WebDriver of Selenium, the browser of Playwright
Browsers == {"driver", "browser"}

\* resource r is started and not quit after the first n events
Alive(r, n) ==
    /\ \E j \in 1..n : EventsOfSource[j] = Start(r)
    /\ \A j \in 1..n : EventsOfSource[j] # Quit(r)

\* C14: when add_source has finished for a web source every browser
\* resource started for it (the Selenium driver, the Playwright process,
\* browser and page) has been closed, and at no time were two browsers
\* alive.
C14_BrowserResourcesReleased ==
    WebSource =>
        /\ \A r \in BrowserResources : ~Alive(r, Len(EventsOfSource))
        /\ \A n \in 1..Len(EventsOfSource) :
              Cardinality({ r \in Browsers : Alive(r, n) }) <= 1

\* a backend was asked for the listing page and gave none
BackendFailed(backend) ==
    \E k \in 1..Len(EventsOfSource) :
        /\ EventsOfSource[k].kind = "fetch"
        /\ EventsOfSource[k].what = backend
        /\ EventsOfSource[k].url = scraper.base_url
        /\ ~EventsOfSource[k].ok

\* an item of the fallback: a preview-unavailable body around a title
IsPlaceholder(item) ==
    /\ StartsWith(item.content, PreviewPrefix)
    /\ EndsWith(item.content, PreviewSuffix)

\* C15: when the listing page needs rendering and Selenium and then
\* Playwright give no page, scrape returns placeholder items and not an
\* empty list.
C15_PlaceholdersNotEmpty ==
    (WebSource /\ BackendFailed("selenium") /\ BackendFailed("playwright")) =>
        /\ scraper.returned.items # <<>>
        /\ \A i \in 1..Len(scraper.returned.items) : IsPlaceholder(scraper.returned.items[i])

\* the place of a backend in the order the listing page is asked for
Rank(backend) ==
    IF backend = "selenium" THEN 1 ELSE IF backend = "playwright" THEN 2
    ELSE IF backend = "fallback" THEN 3 ELSE 0

\* event k asks one of the three backends for the listing page
IsListingFetch(k) ==
    /\ EventsOfSource[k].kind = "fetch"
    /\ EventsOfSource[k].url = scraper.base_url
    /\ Rank(EventsOfSource[k].what) > 0

\* before event k a backend of rank r was asked for the listing page and gave none
FailedBefore(r, k) ==
    \E j \in 1..(k - 1) :
        IsListingFetch(j) /\ Rank(EventsOfSource[j].what) = r /\ ~EventsOfSource[j].ok

NeedsRendering == scraper.returned.locals.strategy \in {"javascript_heavy", "framework_based"}

\* C16: for a listing page that needs rendering the backends are asked in
\* the order Selenium, Playwright, plain-HTTP fallback: Selenium is asked
\* first, a backend is asked only after every earlier one was asked and
\* gave no page, and after a backend has given the page no later one is
\* asked.
C16_BackendsInOrder ==
    (WebSource /\ NeedsRendering) =>
        /\ \E k \in 1..Len(EventsOfSource) :
              /\ IsListingFetch(k)
              /\ EventsOfSource[k].what = "selenium"
              /\ \A j \in 1..(k - 1) : ~IsListingFetch(j)
        /\ \A k \in 1..Len(EventsOfSource) :
              IsListingFetch(k) =>
                  \A r \in 1..(Rank(EventsOfSource[k].what) - 1) : FailedBefore(r, k)
        /\ \A j, k \in 1..Len(EventsOfSource) :
              (j < k /\ IsListingFetch(j) /\ IsListingFetch(k) /\ EventsOfSource[j].ok)
                  => Rank(EventsOfSource[k].what) <= Rank(EventsOfSource[j].what)

\* Selenium gave no page, Playwright gave the listing, the fallback was not
\* asked and the links of the page were scraped
C16_Witness ==
    /\ WebSource
    /\ NeedsRendering
    /\ BackendFailed("selenium")
    /\ \E k \in 1..Len(EventsOfSource) :
          IsListingFetch(k) /\ EventsOfSource[k].what = "playwright" /\ EventsOfSource[k].ok
    /\ \A k \in 1..Len(EventsOfSource) : EventsOfSource[k].what # "fallback"
    /\ scraper.returned.path = "pattern"

\* the URLs of the events of a kind made in a function, in order
UrlsOf(kind, caller) ==
    LET at == SelectSeq([k \in 1..Len(EventsOfSource) |-> k],
                        LAMBDA k : /\ EventsOfSource[k].kind = kind
                                   /\ EventsOfSource[k].what = caller)
    IN  [n \in 1..Len(at) |-> EventsOfSource[at[n]].url]

\* the source_url of every item returned, in order
UrlsReturned ==
    [i \in 1..Len(scraper.returned.items) |-> scraper.returned.items[i].source_url]

\* article_links[:max_articles]
LinksToScrape ==
    SubSeq(scraper.returned.locals.article_links, 1,
           Min(Len(scraper.returned.locals.article_links), scraper.config.max_articles))

\* the calls of progress_callback in click discovery are numbered 1 to
\* their total
ClickProgressComplete ==
    \A n \in 1..Len(ProgressCalls) :
        EventsOfSource[ProgressCalls[n]].what = "_scrape_with_click_discovery" =>
            /\ EventsOfSource[ProgressCalls[n]].current = n
            /\ EventsOfSource[ProgressCalls[n]].total
                  = Len(UrlsOf("progress", "_scrape_with_click_discovery"))

\* every call of progress_callback is followed by the fetch of its URL
EveryUrlAttempted ==
    \A k \in 1..Len(EventsOfSource) :
        IsProgress(k) =>
            /\ k < Len(EventsOfSource)
            /\ EventsOfSource[k + 1].kind = "fetch"
            /\ EventsOfSource[k + 1].url = EventsOfSource[k].url

\* a URL whose page could not be fetched has no item
FailedUrlsGiveNoItem ==
    \A k \in 1..Len(EventsOfSource) :
        (IsArticleFetch(k) /\ ~EventsOfSource[k].ok) =>
            (k = Len(EventsOfSource) \/ EventsOfSource[k + 1].kind # "item")

\* a page was not fetched or gave no item, and a later one gave an item
FailureBeforeSuccess ==
    \E j, k \in 1..Len(EventsOfSource) :
        /\ j < k
        /\ IsArticleFetch(j)
        /\ EventsOfSource[j + 1].kind # "item"
        /\ EventsOfSource[k].kind = "item"

\* C17: in the loop of scrape over article_links[:max_articles] and in the
\* loop of click discovery over the discovered URLs a URL that cannot be
\* fetched, or gives no content, does not end the loop: every URL of the
\* list is attempted in order, a URL that failed has no item, and every
\* item made is returned.
C17_FailureDoesNotAbortBatch ==
    WebSource =>
        /\ scraper.returned.path = "pattern" =>
              /\ UrlsOf("progress", "scrape") = LinksToScrape
              /\ UrlsReturned = UrlsOf("item", "_scrape_article")
        /\ scraper.returned.path = "click" =>
              UrlsReturned = UrlsOf("item", "_scrape_with_click_discovery")
        /\ ClickProgressComplete
        /\ EveryUrlAttempted
        /\ FailedUrlsGiveNoItem

\* two links scraped by scrape, the first not fetched, the second giving
\* the one item returned
C17_Witness ==
    /\ WebSource
    /\ scraper.returned.path = "pattern"
    /\ Len(LinksToScrape) = 2
    /\ Len(scraper.returned.items) = 1
    /\ scraper.returned.items[1].source_url = LinksToScrape[2]
    /\ FailureBeforeSuccess

ClickDiscoveryAttempted ==
    \E k \in 1..Len(EventsOfSource) : EventsOfSource[k] = ClickDiscoveryStarted

\* C18: scrape starts click discovery only when the strategy of the page is
\* javascript_heavy and the base URL contains a substring of the platform
\* list; for a static_html or framework_based page, or another base URL,
\* it is not started and the pattern links are scraped.
C18_ClickOnlyForJavascriptHeavy ==
    (WebSource /\ ClickDiscoveryAttempted) =>
        /\ scraper.returned.locals.strategy = "javascript_heavy"
        /\ \E platform \in click_platforms : Contains(Lower(scraper.base_url), platform)

\* C19: when click discovery gives at least one article scrape returns
\* exactly its items, no link of find_article_links is scraped and no item
\* of one is returned; when click discovery is tried and gives none, the
\* links of find_article_links, up to max_articles, are scraped and their
\* items returned.
C19_ClickSupersedesPattern ==
    WebSource =>
        /\ scraper.returned.locals.click_discovered_articles # <<>> =>
              /\ scraper.returned.items = scraper.returned.locals.click_discovered_articles
              /\ UrlsOf("progress", "scrape") = <<>>
              /\ UrlsOf("item", "_scrape_article") = <<>>
        /\ (ClickDiscoveryAttempted /\ scraper.returned.locals.click_discovered_articles = <<>>) =>
              /\ UrlsOf("progress", "scrape") = LinksToScrape
              /\ UrlsReturned = UrlsOf("item", "_scrape_article")

\* click discovery gave an article while find_article_links had found links
C19_Witness ==
    /\ WebSource
    /\ scraper.returned.locals.click_discovered_articles # <<>>
    /\ scraper.returned.locals.article_links # <<>>
    /\ scraper.returned.path = "click"

(***************************************************************************)
(* Claims about add_source over the sources of a run                       *)
(***************************************************************************)
LastSource == sources[Len(sources)]

\* the first plain fetch of the main page of the last source gave no page
FirstFetchFailed ==
    /\ WebSource
    /\ EventsOfSource[1] = Event("fetch", "requests", scraper.base_url, FALSE, 0, 0)

\* the last source could not be processed at all
CannotBeProcessed ==
    /\ sources # <<>>
    /\ \/ LastSource.kind = "web" /\ FirstFetchFailed
       \/ LastSource.kind = "pdf" /\ (~pdf_support \/ LastSource.path = "no_file")

IsClick(k) == EventsOfSource[k].kind = "click"

ClickEvents == { k \in 1..Len(EventsOfSource) : IsClick(k) }

\* the URLs recorded before candidate idx is reached
RecordedBefore(idx) ==
    Cardinality({ k \in ClickEvents : /\ EventsOfSource[k].what = "recorded"
                                      /\ EventsOfSource[k].current < idx })

\* candidate idx was found on the listing page and clicked
ClickedOnListing(idx) ==
    \E k \in ClickEvents : /\ EventsOfSource[k].current = idx
                           /\ EventsOfSource[k].ok
                           /\ EventsOfSource[k].url = scraper.base_url

\* event k is a click that changed no URL in time or led to a recorded URL
IsSkipped(k) == IsClick(k) /\ EventsOfSource[k].what \in {"timeout", "duplicate"}

\* C21: after a candidate whose click changes no URL within the timeout or
\* leads to a URL already recorded, every later candidate, as long as fewer
\* than max_articles URLs are recorded, is found on the listing page and
\* clicked.
C21_SkippedCandidateDoesNotAbort ==
    WebSource =>
        \A k \in ClickEvents :
            IsSkipped(k) =>
                \A idx \in (EventsOfSource[k].current + 1)..EventsOfSource[k].total :
                    RecordedBefore(idx) < scraper.config.max_articles => ClickedOnListing(idx)

\* C28: whenever a candidate title is looked for, the browser is on the
\* listing page.
C28_BrowserOnListingBeforeEachCandidate ==
    WebSource =>
        \A k \in ClickEvents : EventsOfSource[k].url = scraper.base_url

(***************************************************************************)
(* Claims about the ContentItem of an article and its metadata             *)
(***************************************************************************)
BothBuilt == built.click.called /\ built.article.called

\* C22: for the same URL and page the loop of click discovery and
\* _scrape_article give the same: an item with the same title, content,
\* content_type, source_url and author, or none.
C22_SameItemOnBothPaths ==
    BothBuilt => built.click.result = built.article.result

\* the authors extract_author returned for the items built
AuthorsReturned ==
    { b.result.item.author : b \in { c \in {built.click, built.article} : c.result.has_item } }

\* an author cut at its separator: no middle dot is left in it, and no dash
\* before one of the titles
CutAtSeparator(author) ==
    /\ MiddleDot \notin Range(author)
    /\ ~("-" \in Range(author) /\ ContainsAny(author, CasedTitles))

\* what an address has and a name has not
AddressMarks == { <<"@">>, <<"h","t","t","p">>, <<"w","w","w">> }

\* C23: every non-empty author extract_author returns is cut at its
\* separator, does not begin with "by " in any letter case, contains none
\* of @, http and www and has more than 2 characters.
C23_AuthorCleanedAndChecked ==
    \A author \in AuthorsReturned :
        author # <<>> =>
            /\ CutAtSeparator(author)
            /\ ~StartsWith(Lower(author), <<"b","y"," ">>)
            /\ ~ContainsAny(Lower(author), AddressMarks)
            /\ Len(author) > 2

(***************************************************************************)
(* Claims about the loops of chunk_text                                    *)
(***************************************************************************)
\* chunk_size >= 1 and 0 <= chunk_overlap < chunk_size
OverlapBelowSize(cfg) ==
    cfg.chunk_size >= 1 /\ 0 <= cfg.chunk_overlap /\ cfg.chunk_overlap < cfg.chunk_size

\* C24: with chunk_size >= 1 and 0 <= chunk_overlap < chunk_size no while
\* loop of _size_based_chunking or _split_large_chapter comes back to a
\* start offset it has been at: chunk_text ends, it does not loop for ever.
C24_LoopsMoveForward ==
    (chunked.called /\ OverlapBelowSize(processor)) => chunked.status # "hang"

(***************************************************************************)
(* Claims about the backends and the number of items of one source         *)
(***************************************************************************)
\* no WebDriver was started for the source
SeleniumUnavailable ==
    ~\E k \in 1..Len(EventsOfSource) :
        EventsOfSource[k].kind = "start" /\ EventsOfSource[k].what = "driver"

\* Playwright gave the listing page
RenderedByPlaywright ==
    \E k \in 1..Len(EventsOfSource) :
        /\ EventsOfSource[k].kind = "fetch"
        /\ EventsOfSource[k].what = "playwright"
        /\ EventsOfSource[k].url = scraper.base_url
        /\ EventsOfSource[k].ok

\* C25: when no WebDriver is available and Playwright rendered the listing
\* page of a source, every article page of the source is asked of
\* Playwright.
C25_ArticlesThroughPlaywright ==
    (WebSource /\ SeleniumUnavailable /\ RenderedByPlaywright) =>
        \A k \in 1..Len(EventsOfSource) :
            IsArticleFetch(k) => EventsOfSource[k].what = "playwright"

\* C26: one call of scrape returns at most max_articles items, on every
\* path.
C26_AtMostMaxArticles ==
    WebSource => Len(scraper.returned.items) <= scraper.config.max_articles

(***************************************************************************)
(* Claims about the URLs find_article_links returns                        *)
(***************************************************************************)
\* C27: every URL of the list find_article_links returns passes
\* _is_likely_article_url, whichever pass added it, from an anchor or made
\* of a title.
C27_EveryLinkIsLikelyArticle ==
    article_links.called =>
        \A k \in 1..Len(article_links.returned) :
            _is_likely_article_url(article_links.returned[k])

\* C29: whenever chunk_text returns, no two of the returned chunks carry the
\* same chunk_index, the sub-chunks of a chapter longer than twice the
\* chunk_size included.
C29_ChunkIndexIdentifiesChunk ==
    Returned =>
        \A j, k \in 1..Len(chunked.chunks) :
            chunked.chunks[j].chunk_index = chunked.chunks[k].chunk_index => j = k

(***************************************************************************)
(* Claims about the scraping jobs of the web interface.                    *)
(***************************************************************************)
Completed(j) == job_results[j].status = "completed"

\* the document save writes for the items the thread of job j scraped
ScrapedData(j) == OutputData(TeamId(threads[j].config), threads[j].items)

\* C30: for every job recorded as completed, the file at its output_path
\* holds exactly the items the job scraped and its total_items is their
\* number, and every result served for a job is that job's own, under
\* every interleaving of the job threads.
C30_EachJobKeepsItsOwnResults ==
    /\ \A j \in JobIds :
          Completed(j) =>
              /\ files[job_results[j].output_path] = Holding(ScrapedData(j))
              /\ job_results[j].total_items = Len(threads[j].items)
    /\ \A k \in 1..Len(responses) :
          responses[k].code = 200 => responses[k].data = ScrapedData(responses[k].job_id)

(***************************************************************************)
(* Specifications                                                          *)
(***************************************************************************)
\* _is_likely_article_url applied to every URL of UrlInputs
UrlInit ==
    /\ url \in UrlInputs
    /\ verdict = NoVerdict
    /\ soup = <<>>
    /\ architecture = NoProfile
    /\ pdf_text = <<>>
    /\ processor = Processor(1000, 200)
    /\ chunked = NotChunked
    /\ listing = <<>>
    /\ link_base = <<>>
    /\ article_links = NotFound
    /\ fetched = NoSoup
    /\ article = NotScraped
    /\ pdf_support = FALSE
    /\ items = <<>>
    /\ sources = <<>>
    /\ scraper = NoScraper
    /\ discovered = LinkInfo(<<>>, <<>>)
    /\ rendered_soup = <<>>
    /\ strings_get_text = FALSE
    /\ built = NoneBuilt
    /\ jobs = NoJobs
    /\ job_results = NoResults
    /\ files = NoFiles
    /\ threads = NoThreads
    /\ clock = 0
    /\ responses = <<>>

UrlNext == CallIsLikelyArticleUrl

SpecUrl == UrlInit /\ [][UrlNext]_vars

\* detect_architecture applied to every page of Pages(MaxNodes)
ArchInit ==
    /\ soup \in Pages(MaxNodes)
    /\ architecture = NoProfile
    /\ url = <<>>
    /\ verdict = NoVerdict
    /\ pdf_text = <<>>
    /\ processor = Processor(1000, 200)
    /\ chunked = NotChunked
    /\ listing = <<>>
    /\ link_base = <<>>
    /\ article_links = NotFound
    /\ fetched = NoSoup
    /\ article = NotScraped
    /\ pdf_support = FALSE
    /\ items = <<>>
    /\ sources = <<>>
    /\ scraper = NoScraper
    /\ discovered = LinkInfo(<<>>, <<>>)
    /\ rendered_soup = <<>>
    /\ strings_get_text = FALSE
    /\ built = NoneBuilt
    /\ jobs = NoJobs
    /\ job_results = NoResults
    /\ files = NoFiles
    /\ threads = NoThreads
    /\ clock = 0
    /\ responses = <<>>

ArchNext == CallDetectArchitecture

SpecArch == ArchInit /\ [][ArchNext]_vars

\* chunk_text applied to every text of Texts(MaxPieces) by every processor
ChunkInit ==
    /\ pdf_text \in Texts(MaxPieces)
    /\ processor \in Processors
    /\ chunked = NotChunked
    /\ url = <<>>
    /\ verdict = NoVerdict
    /\ soup = <<>>
    /\ architecture = NoProfile
    /\ listing = <<>>
    /\ link_base = <<>>
    /\ article_links = NotFound
    /\ fetched = NoSoup
    /\ article = NotScraped
    /\ pdf_support = FALSE
    /\ items = <<>>
    /\ sources = <<>>
    /\ scraper = NoScraper
    /\ discovered = LinkInfo(<<>>, <<>>)
    /\ rendered_soup = <<>>
    /\ strings_get_text = FALSE
    /\ built = NoneBuilt
    /\ jobs = NoJobs
    /\ job_results = NoResults
    /\ files = NoFiles
    /\ threads = NoThreads
    /\ clock = 0
    /\ responses = <<>>

ChunkNext == CallChunkText

SpecChunk == ChunkInit /\ [][ChunkNext]_vars

\* find_article_links applied to every page of Listings(MaxBlocks) and of
\* ReviewListings with every base URL
LinkInit ==
    /\ listing \in Listings(MaxBlocks) \cup ReviewListings
    /\ link_base \in BaseUrls
    /\ article_links = NotFound
    /\ url = <<>>
    /\ verdict = NoVerdict
    /\ soup = <<>>
    /\ architecture = NoProfile
    /\ pdf_text = <<>>
    /\ processor = Processor(1000, 200)
    /\ chunked = NotChunked
    /\ fetched = NoSoup
    /\ article = NotScraped
    /\ pdf_support = FALSE
    /\ items = <<>>
    /\ sources = <<>>
    /\ scraper = NoScraper
    /\ discovered = LinkInfo(<<>>, <<>>)
    /\ rendered_soup = <<>>
    /\ strings_get_text = FALSE
    /\ built = NoneBuilt
    /\ jobs = NoJobs
    /\ job_results = NoResults
    /\ files = NoFiles
    /\ threads = NoThreads
    /\ clock = 0
    /\ responses = <<>>

LinkNext == CallFindArticleLinks

SpecLinks == LinkInit /\ [][LinkNext]_vars

\* _scrape_article applied to every page of ArticlePages(MaxParts), and to a
\* fetch that failed
ContentInit ==
    /\ fetched \in { Soup(dom) : dom \in ArticlePages(MaxParts) } \cup { NoSoup }
    /\ article = NotScraped
    /\ url = <<>>
    /\ verdict = NoVerdict
    /\ soup = <<>>
    /\ architecture = NoProfile
    /\ pdf_text = <<>>
    /\ processor = Processor(1000, 200)
    /\ chunked = NotChunked
    /\ listing = <<>>
    /\ link_base = <<>>
    /\ article_links = NotFound
    /\ pdf_support = FALSE
    /\ items = <<>>
    /\ sources = <<>>
    /\ scraper = NoScraper
    /\ discovered = LinkInfo(<<>>, <<>>)
    /\ rendered_soup = <<>>
    /\ strings_get_text = FALSE
    /\ built = NoneBuilt
    /\ jobs = NoJobs
    /\ job_results = NoResults
    /\ files = NoFiles
    /\ threads = NoThreads
    /\ clock = 0
    /\ responses = <<>>

ContentNext == CallScrapeArticle

SpecContent == ContentInit /\ [][ContentNext]_vars

\* a run of UniversalKnowledgebaseScraper: add_source on up to MaxSources
\* sources, with or without a PDF library
RunInit ==
    /\ pdf_support \in BOOLEAN
    /\ items = <<>>
    /\ sources = <<>>
    /\ scraper = NoScraper
    /\ url = <<>>
    /\ verdict = NoVerdict
    /\ soup = <<>>
    /\ architecture = NoProfile
    /\ pdf_text = <<>>
    /\ processor = Processor(1000, 200)
    /\ chunked = NotChunked
    /\ listing = <<>>
    /\ link_base = <<>>
    /\ article_links = NotFound
    /\ fetched = NoSoup
    /\ article = NotScraped
    /\ discovered = LinkInfo(<<>>, <<>>)
    /\ rendered_soup = <<>>
    /\ strings_get_text = FALSE
    /\ built = NoneBuilt
    /\ jobs = NoJobs
    /\ job_results = NoResults
    /\ files = NoFiles
    /\ threads = NoThreads
    /\ clock = 0
    /\ responses = <<>>

RunNext == AddWebSource \/ AddPdfSource

SpecRun == RunInit /\ [][RunNext]_vars

\* both builders applied to every page of DescribedPages at every URL of
\* DiscoveredUrls, with either bs4
ItemInit ==
    /\ discovered \in { LinkInfo(u, PostTitle) : u \in DiscoveredUrls }
    /\ rendered_soup \in DescribedPages
    /\ strings_get_text \in BOOLEAN
    /\ built = NoneBuilt
    /\ url = <<>>
    /\ verdict = NoVerdict
    /\ soup = <<>>
    /\ architecture = NoProfile
    /\ pdf_text = <<>>
    /\ processor = Processor(1000, 200)
    /\ chunked = NotChunked
    /\ listing = <<>>
    /\ link_base = <<>>
    /\ article_links = NotFound
    /\ fetched = NoSoup
    /\ article = NotScraped
    /\ pdf_support = FALSE
    /\ items = <<>>
    /\ sources = <<>>
    /\ scraper = NoScraper
    /\ jobs = NoJobs
    /\ job_results = NoResults
    /\ files = NoFiles
    /\ threads = NoThreads
    /\ clock = 0
    /\ responses = <<>>

ItemNext == ScrapeDiscoveredArticle \/ ScrapeFetchedArticle

SpecItem == ItemInit /\ [][ItemNext]_vars

\* the web interface before the first job: no thread, no result, no file
JobInit ==
    /\ jobs = NoJobs
    /\ job_results = NoResults
    /\ files = NoFiles
    /\ threads = NoThreads
    /\ clock = 0
    /\ responses = <<>>
    /\ url = <<>>
    /\ verdict = NoVerdict
    /\ soup = <<>>
    /\ architecture = NoProfile
    /\ pdf_text = <<>>
    /\ processor = Processor(1000, 200)
    /\ chunked = NotChunked
    /\ listing = <<>>
    /\ link_base = <<>>
    /\ article_links = NotFound
    /\ fetched = NoSoup
    /\ article = NotScraped
    /\ pdf_support = FALSE
    /\ items = <<>>
    /\ sources = <<>>
    /\ scraper = NoScraper
    /\ discovered = LinkInfo(<<>>, <<>>)
    /\ rendered_soup = <<>>
    /\ strings_get_text = FALSE
    /\ built = NoneBuilt

JobNext ==
    \/ StartJob
    \/ ProcessSources
    \/ NameOutput
    \/ OpenOutput
    \/ DumpOutput
    \/ ReadBack
    \/ RecordResult
    \/ GetJobResults
    \/ Tick

SpecJobs == JobInit /\ [][JobNext]_vars

====
